---------------------------- MODULE Spec2Model ----------------------------
(***************************************************************************)
(* Model of the orchestrator microservice (src/src/clients.py,             *)
(* src/src/orchestrator_service.py, src/src/config.py).                    *)
(*                                                                         *)
(* One request is served per behaviour; `op` says which entry point it     *)
(* is:                                                                     *)
(*   "adapter"               one adapter method of clients.py called       *)
(*                           directly (it runs BaseClient._make_request)   *)
(*   "get_summary_data"      OrchestratorService.get_summary_data, which   *)
(*                           first calls get_consolidated_data with the    *)
(*                           same argument; `snapshot` is what that call   *)
(*                           returned                                      *)
(*   "check_services_health" OrchestratorService.check_services_health     *)
(*   "calculate_rankings", "calculate_summary_stats", "calculate_trends"   *)
(*                           one of the calculations of get_summary_data   *)
(*                           applied to a snapshot `consolidated`          *)
(*                                                                         *)
(* The coroutines are scheduled cooperatively (asyncio): a step of the     *)
(* model runs one coroutine from one await to the next, so everything      *)
(* between two awaits is one atomic action.  The variables of the entry    *)
(* points that are not called keep their initial values.                   *)
(***************************************************************************)
EXTENDS Integers, Sequences, FiniteSets, TLC

VARIABLES
    op,             \* the entry point this request calls
    max_retries,    \* BaseClient.max_retries (MAX_RETRIES of the environment)
    user_id,        \* the user_id argument of get_summary_data
    upstream,       \* the answer each service gives to the request of its
                    \* branch, where the services are taken to be fixed
    previous,       \* what the call of get_consolidated_data before this
                    \* one returned
    \* ---- op = "calculate_rankings", "calculate_summary_stats",
    \* ---- "calculate_trends"
    consolidated,   \* the snapshot the calculation is given
    rankings,       \* what _calculate_rankings returned
    summary,        \* what _calculate_summary_stats returned
    trends,         \* what _calculate_trends returned
    \* ---- op = "adapter"
    endpoint,       \* the adapter method called
    frame,          \* the frame of _make_request
    adapter_ret,    \* what the adapter method returned
    outcomes,       \* history: the outcome of every attempt, in order
    slept,          \* history: the duration of every asyncio.sleep, in order
    logs,           \* the warnings and errors _make_request logged, in order
    attempt_time,   \* the time the request in flight has taken, where the
                    \* time of the attempts is followed
    durations,      \* history: the time every attempt took, in order
    \* ---- op = "get_summary_data"
    cpc,            \* position of the coordinator: "start", "gather", "done"
    branches,       \* the four tasks of the gather, by service
    called,         \* history per branch: the adapter method it called and
                    \* the user id its request carries
    branch_how,     \* history per branch: how its adapter call ended
    branch_got,     \* history per branch: what its adapter returned
    snapshot,       \* what get_consolidated_data returned
    response,       \* what get_summary_data returned
    \* ---- op = "check_services_health"
    hpc,            \* position of the prober: "start", "gather", "done"
    now,            \* the event loop's clock, in time units since the call
    probes,         \* the four tasks of the gather, by service
    probe_how,      \* history per service: how its probe ended
    health_status   \* the map check_services_health returns

vars == <<op, max_retries, user_id, upstream, previous, consolidated, rankings,
          summary, trends,
          endpoint, frame, adapter_ret, outcomes,
          slept, logs, attempt_time, durations, cpc, branches, called, branch_how, branch_got, snapshot, response,
          hpc, now, probes, probe_how, health_status>>

timed_vars   == <<attempt_time, durations>>
adapter_vars == <<endpoint, frame, adapter_ret, outcomes, slept, logs,
                  timed_vars>>
coord_vars   == <<cpc, branches, called, branch_how, branch_got, snapshot, response>>
health_vars  == <<hpc, now, probes, probe_how, health_status>>
\* what no step of a call changes
calc_vars    == <<consolidated, rankings, summary, trends>>
config_vars  == <<op, max_retries, user_id, upstream, previous, calc_vars>>

-----------------------------------------------------------------------------
(* Bounds of the model *)

\* max_retries ranges over -MaxNegRetries..MaxRetriesCfg
MaxRetriesCfg == 3
MaxNegRetries == 1
\* where the calls are followed to their end, up to LiveRetries
LiveRetries == 2
\* a list payload has at most MaxListLen elements
MaxListLen == 2
\* _calculate_rankings is given at most MaxAccounts accounts
MaxAccounts == 3
\* and at most MaxUsers users
MaxUsers == 2
\* or, with no users, the accounts and the items of at most MaxItems owners
MaxItems == 6
\* _calculate_summary_stats and _calculate_trends are given at most
\* MaxStatItems items
MaxStatItems == 4
\* against fixed services max_retries ranges over 1..FixedRetries
FixedRetries == 2
\* where the time of the attempts is followed, it passes in steps of TimeStep
TimeStep == 15

(* Program constants *)

\* RETRY_DELAY, in time units
RETRY_DELAY == 1
\* REQUEST_TIMEOUT, in time units
REQUEST_TIMEOUT == 30
\* the timeout of asyncio.wait_for around one probe
PROBE_TIMEOUT == 2
\* the timeout of asyncio.wait_for around the gather of the four probes
HEALTH_TIMEOUT == 5
\* str(e)[:50]
REASON_CHARS == 50
\* the [:5] of the rankings
TOP_N == 5

-----------------------------------------------------------------------------
(* Python values, as records tagged with their kind:                       *)
(*   "none"  None                                                          *)
(*   "list"  a JSON array; elems are its elements, opaque records          *)
(*   "dict"  a JSON object with the keys `keys`: {} , an opaque record     *)
(*           (rec identifies it), or a metrics bundle with the values of   *)
(*           its keys                                                      *)
(*   "exc"   an exception object; msg is str(e), as a sequence             *)

None == [kind |-> "none"]
List(es) == [kind |-> "list", elems |-> es]
EmptyList == List(<<>>)
EmptyDict == [kind |-> "dict", keys |-> {}]
\* an opaque record such as a user profile
Record(r) == [kind |-> "dict", keys |-> {"id", "email"}, rec |-> r]
\* {"items": it, "count": c, "dashboard": d}
Bundle(it, c, d) ==
    [kind |-> "dict", keys |-> {"items", "count", "dashboard"},
     items |-> it, count |-> c, dashboard |-> d]
\* {"count": c}: a metrics object without items and dashboard
CountOnly(c) == [kind |-> "dict", keys |-> {"count"}, count |-> c]
Exc(m) == [kind |-> "exc", msg |-> m]

\* bool(v)
Truthy(v) ==
    CASE v.kind = "none" -> FALSE
      [] v.kind = "list" -> v.elems # <<>>
      [] v.kind = "dict" -> v.keys # {}
      [] OTHER -> TRUE

\* len(v) of a list or a dict
PyLen(v) == IF v.kind = "list" THEN Len(v.elems) ELSE Cardinality(v.keys)

\* isinstance(v, Exception)
IsException(v) == v.kind = "exc"

\* metrics.get("count", 0)
GetCount(v) == IF "count" \in v.keys THEN v.count ELSE 0

\* metrics.get("items", [])
GetItems(v) == IF "items" \in v.keys THEN v.items ELSE <<>>

-----------------------------------------------------------------------------
(* The endpoints and what the services may answer *)

ListEndpoints == {"users", "scraped_accounts", "scraped_accounts_by_user",
                  "questions", "dashboard"}
MetricsEndpoints == {"dbquery_user", "dbquery_admin"}
Endpoints == ListEndpoints \cup MetricsEndpoints \cup {"profile"}

\* the records of a kind (1 users, 2 accounts, 3 metric items, 4 dashboard)
Rec(kindNo, i) == 10 * kindNo + i
RecList(kindNo, n) == [i \in 1..n |-> Rec(kindNo, i)]

EndpointKind(e) ==
    CASE e \in {"users", "profile"} -> 1
      [] e \in {"scraped_accounts", "scraped_accounts_by_user", "questions"} -> 2
      [] e \in MetricsEndpoints -> 3
      [] OTHER -> 4

\* the parsed payloads a successful response of endpoint e may carry
Payloads(e) ==
    CASE e \in ListEndpoints ->
            {List(RecList(EndpointKind(e), n)) : n \in 0..MaxListLen}
      [] e = "profile" -> {EmptyDict, Record(Rec(1, 1))}
      [] OTHER ->
            {EmptyDict, Bundle(<<>>, 0, <<>>), Bundle(<<>>, 2, <<>>),
             Bundle(RecList(3, 1), 1, RecList(4, 1)),
             Bundle(RecList(3, 1), 0, <<>>), CountOnly(2)}

\* the ways one attempt can fail: an error status (HTTPStatusError), a
\* transport error, the per-attempt timeout, a body that is not JSON
FailKinds == {"status", "transport", "timeout", "parse"}

-----------------------------------------------------------------------------
(* BaseClient._make_request.  Its frame is                                 *)
(*   [pc "idle"]                     not called                            *)
(*   [pc "request", attempt]         awaiting client.request of the        *)
(*                                   iteration `attempt`                   *)
(*   [pc "sleep", attempt, delay]    awaiting asyncio.sleep(delay) in the  *)
(*                                   handler of the iteration `attempt`    *)
(*   [pc "returned", ret]            returned `ret`                        *)

IdleFrame == [pc |-> "idle"]
RequestFrame(a) == [pc |-> "request", attempt |-> a]
SleepFrame(a, d) == [pc |-> "sleep", attempt |-> a, delay |-> d]
ReturnedFrame(v) == [pc |-> "returned", ret |-> v]

\* the loop as one that tests its bound after the first iteration
make_request_iterate_do_while(a, mr) ==
    IF a = 0 \/ a < mr THEN RequestFrame(a) ELSE ReturnedFrame(None)

\* `for attempt in range(self.max_retries)`: the iteration of index a, or
\* the `return None` that follows the loop
make_request_iterate(a, mr) ==
    IF a < mr THEN RequestFrame(a) ELSE ReturnedFrame(None)

\* the call: the first iteration of the loop
make_request_enter(mr) == make_request_iterate(0, mr)

\* mutant: the parsed payload is dropped on the way out
make_request_on_response_lost(f, payload) == ReturnedFrame(None)

\* raise_for_status() passed and response.json() parsed: return the payload
make_request_on_response(f, payload) == ReturnedFrame(payload)

\* mutant: the last failure of a kind other than HTTPStatusError is raised
\* again instead of returning None
make_request_on_failure_reraise(f, kind, mr) ==
    IF f.attempt < mr - 1
    THEN SleepFrame(f.attempt, RETRY_DELAY)
    ELSE IF kind = "status" THEN ReturnedFrame(None) ELSE [pc |-> "raised"]

\* mutant: the delay is awaited after the last attempt too
make_request_on_failure_sleep_last(f, kind, mr) ==
    IF f.attempt < mr
    THEN SleepFrame(f.attempt, RETRY_DELAY)
    ELSE ReturnedFrame(None)

\* the attempt raised: HTTPStatusError (kind "status") or any other
\* Exception (transport error, timeout, unparsable body)
make_request_on_failure(f, kind, mr) ==
    IF kind = "status"
    THEN IF f.attempt < mr - 1
         THEN SleepFrame(f.attempt, RETRY_DELAY)
         ELSE ReturnedFrame(None)
    ELSE IF f.attempt < mr - 1
         THEN SleepFrame(f.attempt, RETRY_DELAY)
         ELSE ReturnedFrame(None)

\* a record of the log: its level, and whether it reports one failed
\* attempt or the end of the retries
Log(l, w) == [level |-> l, what |-> w]

\* what the handler of a failed attempt logs: the `except
\* httpx.HTTPStatusError` a warning, and an error after the last attempt;
\* the `except Exception` an error, and nothing more after the last attempt
make_request_logs(f, kind, mr) ==
    IF kind = "status"
    THEN IF f.attempt < mr - 1
         THEN <<Log("warning", "attempt")>>
         ELSE <<Log("warning", "attempt"), Log("error", "exhausted")>>
    ELSE <<Log("error", "attempt")>>

\* asyncio.sleep never returns
make_request_on_wake_asleep(f, mr) == f

\* asyncio.sleep returned: the handler ends and the loop goes on
make_request_on_wake(f, mr) == make_request_iterate(f.attempt + 1, mr)

-----------------------------------------------------------------------------
(* The adapter methods of clients.py: what each returns for the value      *)
(* _make_request returned.                                                 *)

\* mutant: the response is returned as it is, None included
list_adapter_return_raw(resp) == resp

\* `return response if response else []`
list_adapter_return(resp) == IF Truthy(resp) THEN resp ELSE EmptyList

\* mutant: the response is returned as it is, None included
metrics_adapter_return_raw(resp) == resp

\* `return response if response else {"items": [], "count": 0, "dashboard": []}`
metrics_adapter_return(resp) ==
    IF Truthy(resp) THEN resp ELSE Bundle(<<>>, 0, <<>>)

\* get_user_profile: `return await self._make_request(...)`
profile_adapter_return(resp) == resp

AdapterReturn(e, resp) ==
    CASE e \in ListEndpoints -> list_adapter_return(resp)
      [] e \in MetricsEndpoints -> metrics_adapter_return(resp)
      [] OTHER -> profile_adapter_return(resp)

\* the state of a call that has not returned / that returned v
Pending == [done |-> FALSE]
Returned(v) == [done |-> TRUE, value |-> v]

\* the adapter returns as soon as _make_request does (no await in between)
AdapterAfter(e, f) ==
    IF f.pc = "returned" THEN Returned(AdapterReturn(e, f.ret)) ELSE Pending

\* how the call of _make_request stands, for its frame f: not returned,
\* returned None, or returned a payload
HowAfter(f) ==
    CASE f.pc # "returned" -> "pending"
      [] f.ret = None -> "absent"
      [] OTHER -> "payload"

-----------------------------------------------------------------------------
(* op = "adapter": one adapter method is called directly. *)

\* the outcome of one attempt: "ok" with the parsed payload, or a failure
Outcome(k, p) == [kind |-> k, payload |-> p]

AdapterEnter ==
    /\ op = "adapter"
    /\ frame.pc = "idle"
    /\ frame' = make_request_enter(max_retries)
    /\ adapter_ret' = AdapterAfter(endpoint, frame')
    /\ UNCHANGED <<endpoint, outcomes, slept, logs, timed_vars>>
    /\ UNCHANGED <<config_vars, coord_vars, health_vars>>

AttemptSucceeds ==
    /\ op = "adapter"
    /\ frame.pc = "request"
    /\ \E p \in Payloads(endpoint) :
          /\ frame' = make_request_on_response(frame, p)
          /\ outcomes' = Append(outcomes, Outcome("ok", p))
    /\ adapter_ret' = AdapterAfter(endpoint, frame')
    /\ UNCHANGED <<endpoint, slept, logs, timed_vars>>
    /\ UNCHANGED <<config_vars, coord_vars, health_vars>>

AttemptFails ==
    /\ op = "adapter"
    /\ frame.pc = "request"
    /\ \E k \in FailKinds :
          /\ frame' = make_request_on_failure(frame, k, max_retries)
          /\ outcomes' = Append(outcomes, Outcome(k, None))
          /\ logs' = logs \o make_request_logs(frame, k, max_retries)
    /\ adapter_ret' = AdapterAfter(endpoint, frame')
    /\ slept' = IF frame'.pc = "sleep" THEN Append(slept, frame'.delay) ELSE slept
    /\ UNCHANGED <<endpoint, timed_vars>>
    /\ UNCHANGED <<config_vars, coord_vars, health_vars>>

SleepEnds ==
    /\ op = "adapter"
    /\ frame.pc = "sleep"
    /\ frame' = make_request_on_wake(frame, max_retries)
    /\ adapter_ret' = AdapterAfter(endpoint, frame')
    /\ UNCHANGED <<endpoint, outcomes, slept, logs, timed_vars>>
    /\ UNCHANGED <<config_vars, coord_vars, health_vars>>

-----------------------------------------------------------------------------
(* op = "adapter" with the time of the attempts followed: every attempt    *)
(* builds its own httpx.AsyncClient(timeout=self.timeout), which raises a  *)
(* timeout exception when the request has taken REQUEST_TIMEOUT.           *)

RECURSIVE SeqSum(_)
SeqSum(q) == IF q = <<>> THEN 0 ELSE Head(q) + SeqSum(Tail(q))

\* the time since _make_request was called
CallTime == SeqSum(durations) + SeqSum(slept) + attempt_time

\* mutant: one timeout covers the whole call
attempt_expired_cumulative(at, ct) == ct >= REQUEST_TIMEOUT

\* the client of an attempt gives up when the attempt, in flight for the
\* time at at the time ct of the call, has taken the timeout
attempt_expired(at, ct) == at >= REQUEST_TIMEOUT

\* the request stays in flight for a while
TimedWaits ==
    /\ op = "adapter"
    /\ frame.pc = "request"
    /\ ~attempt_expired(attempt_time, CallTime)
    /\ attempt_time' = IF attempt_time + TimeStep < REQUEST_TIMEOUT
                       THEN attempt_time + TimeStep ELSE REQUEST_TIMEOUT
    /\ UNCHANGED <<endpoint, frame, adapter_ret, outcomes, slept, logs,
                   durations>>
    /\ UNCHANGED <<config_vars, coord_vars, health_vars>>

\* the attempt ends with the frame f and the outcome o
TimedStep(f, o) ==
    /\ frame' = f
    /\ outcomes' = Append(outcomes, o)
    /\ durations' = Append(durations, attempt_time)
    /\ attempt_time' = 0
    /\ adapter_ret' = AdapterAfter(endpoint, f)
    /\ slept' = IF f.pc = "sleep" THEN Append(slept, f.delay) ELSE slept
    /\ logs' = IF o.kind = "ok" THEN logs
               ELSE logs \o make_request_logs(frame, o.kind, max_retries)
    /\ UNCHANGED endpoint
    /\ UNCHANGED <<config_vars, coord_vars, health_vars>>

TimedSucceeds ==
    /\ op = "adapter"
    /\ frame.pc = "request"
    /\ ~attempt_expired(attempt_time, CallTime)
    /\ \E p \in Payloads(endpoint) :
          TimedStep(make_request_on_response(frame, p), Outcome("ok", p))

TimedFails ==
    /\ op = "adapter"
    /\ frame.pc = "request"
    /\ ~attempt_expired(attempt_time, CallTime)
    /\ \E k \in FailKinds \ {"timeout"} :
          TimedStep(make_request_on_failure(frame, k, max_retries),
                    Outcome(k, None))

\* the client raises its timeout exception, an Exception like any other
TimedExpires ==
    /\ op = "adapter"
    /\ frame.pc = "request"
    /\ attempt_expired(attempt_time, CallTime)
    /\ TimedStep(make_request_on_failure(frame, "timeout", max_retries),
                 Outcome("timeout", None))

-----------------------------------------------------------------------------
(* OrchestratorService.get_consolidated_data and get_summary_data.         *)
(* A branch is one of the four coroutines handed to asyncio.gather; it is  *)
(* named by the service it calls.  Its task is                             *)
(*   [pc "running", endpoint, frame]  inside its adapter's _make_request   *)
(*   [pc "settled", result]           the coroutine returned `result`, or  *)
(*                                    raised it                            *)
(* There are no tasks before the gather is created.                        *)

Services == {"microservice1", "microservice2", "microservice3", "microservice4"}

\* the user_id argument: absent (None) or an integer
NoUser == [given |-> FALSE]
Uid(n) == [given |-> TRUE, id |-> n]
UserIdArgs == {NoUser, Uid(0), Uid(1)}

\* `if user_id:`
UserIdTruthy(uid) == uid.given /\ uid.id # 0

\* the adapter method each branch calls
BranchEndpoint(s, uid) ==
    CASE s = "microservice1" -> IF UserIdTruthy(uid) THEN "profile" ELSE "users"
      [] s = "microservice2" ->
            IF UserIdTruthy(uid) THEN "scraped_accounts_by_user"
                                 ELSE "scraped_accounts"
      [] s = "microservice3" -> "dbquery_user"
      [] OTHER -> "dashboard"

\* query_user_metrics: `if user_id: payload["userId"] = user_id`
metrics_payload(uid) == IF UserIdTruthy(uid) THEN uid ELSE NoUser

\* the user id the request of a branch carries: in the path of the
\* profile and of the accounts by user, in the body of the metrics query
BranchUser(s, uid) ==
    CASE s \in {"microservice1", "microservice2"} ->
            IF UserIdTruthy(uid) THEN uid ELSE NoUser
      [] s = "microservice3" -> metrics_payload(uid)
      [] OTHER -> NoUser

Call(e, u) == [method |-> e, user |-> u]

\* _get_users_data: `return [profile] if profile else []`, or the list of
\* get_all_users as it is
get_users_data_return(uid, v) ==
    IF UserIdTruthy(uid)
    THEN IF Truthy(v) THEN List(<<v.rec>>) ELSE EmptyList
    ELSE v

\* what a branch returns when its adapter returned v
BranchReturn(s, uid, v) ==
    IF s = "microservice1" THEN get_users_data_return(uid, v) ELSE v

\* mutant: the branch lets the exception through to the gather
BranchExceptPropagates(s, e) == e

\* the `except Exception` of a branch: its typed default
BranchExcept(s, e) ==
    IF s = "microservice3" THEN Bundle(<<>>, 0, <<>>) ELSE EmptyList

RunningBranch(e, f) == [pc |-> "running", endpoint |-> e, frame |-> f]
SettledBranch(r) == [pc |-> "settled", result |-> r]
NoTasks == <<>>

\* the branch after a step of its _make_request left the frame f: the adapter
\* and the branch return as soon as _make_request does
BranchAfter(s, uid, e, f) ==
    IF f.pc = "returned"
    THEN SettledBranch(BranchReturn(s, uid, AdapterReturn(e, f.ret)))
    ELSE RunningBranch(e, f)

\* mutant: the gather is taken to be done when the first task is
gather_any(tasks) == \E s \in DOMAIN tasks : tasks[s].pc = "settled"

\* asyncio.gather(*tasks, return_exceptions=True) is done when every task is
gather_done(tasks) == \A s \in DOMAIN tasks : tasks[s].pc = "settled"

\* mutant: the results of the first two tasks come back in each other's place
gather_results_swapped(tasks) ==
    [s \in DOMAIN tasks |->
        LET t == CASE s = "microservice1" -> "microservice2"
                   [] s = "microservice2" -> "microservice1"
                   [] OTHER -> s
        IN  IF tasks[t].pc = "settled" THEN tasks[t].result ELSE None]

\* the results the gather returns, one per task
gather_results(tasks) ==
    [s \in DOMAIN tasks |->
        IF tasks[s].pc = "settled" THEN tasks[s].result ELSE None]

\* mutant: the users of a call are added to the list the call before left
process_result_accumulating(s, r) ==
    IF s = "microservice1" /\ previous.kind = "snapshot" /\ r.kind = "list"
    THEN List(previous.users.elems \o r.elems)
    ELSE IF ~IsException(r) THEN r
    ELSE IF s = "microservice3" THEN EmptyDict ELSE EmptyList

\* `results[i] if not isinstance(results[i], Exception) else []` ({} for
\* the metrics)
process_result(s, r) ==
    IF ~IsException(r) THEN r
    ELSE IF s = "microservice3" THEN EmptyDict ELSE EmptyList

\* mutant: the posts are counted, and the metrics service judged, by the
\* items instead of the count field
build_metadata_by_items(users, accounts, metrics, dashboard) ==
    [total_users |-> PyLen(users),
     total_accounts |-> PyLen(accounts),
     total_posts_analyzed |-> Len(GetItems(metrics)),
     services_status |->
        [s \in Services |->
            CASE s = "microservice1" -> IF Truthy(users) THEN "ok" ELSE "no_data"
              [] s = "microservice2" -> IF Truthy(accounts) THEN "ok" ELSE "no_data"
              [] s = "microservice3" ->
                    IF Len(GetItems(metrics)) > 0 THEN "ok" ELSE "no_data"
              [] OTHER -> IF Truthy(dashboard) THEN "ok" ELSE "no_data"]]

\* _build_metadata (the timestamp is left out)
build_metadata(users, accounts, metrics, dashboard) ==
    [total_users |-> PyLen(users),
     total_accounts |-> PyLen(accounts),
     total_posts_analyzed |-> GetCount(metrics),
     services_status |->
        [s \in Services |->
            CASE s = "microservice1" -> IF Truthy(users) THEN "ok" ELSE "no_data"
              [] s = "microservice2" -> IF Truthy(accounts) THEN "ok" ELSE "no_data"
              [] s = "microservice3" ->
                    IF GetCount(metrics) > 0 THEN "ok" ELSE "no_data"
              [] OTHER -> IF Truthy(dashboard) THEN "ok" ELSE "no_data"]]

\* what get_consolidated_data returned: nothing yet, an exception it raised,
\* or a snapshot [kind "snapshot", users, scraped_accounts, metrics,
\* dashboard_data, metadata]
NoSnapshot == [kind |-> "none"]
RaisedSnapshot == [kind |-> "raised"]

\* len() and .get() of lines 81-99 raise on a value that is no list or dict
consolidated_raises(users, accounts, metrics, dashboard) ==
    \/ users.kind \notin {"list", "dict"}
    \/ accounts.kind \notin {"list", "dict"}
    \/ metrics.kind # "dict"

\* get_consolidated_data from the gather on: lines 72-101
consolidate(results) ==
    LET users == process_result("microservice1", results["microservice1"])
        accounts == process_result("microservice2", results["microservice2"])
        metrics == process_result("microservice3", results["microservice3"])
        dashboard == process_result("microservice4", results["microservice4"])
    IN  IF consolidated_raises(users, accounts, metrics, dashboard)
        THEN RaisedSnapshot
        ELSE [kind |-> "snapshot", users |-> users,
              scraped_accounts |-> accounts, metrics |-> metrics,
              dashboard_data |-> dashboard,
              metadata |-> build_metadata(users, accounts, metrics, dashboard)]

\* what get_summary_data returned: nothing yet, an exception, or a summary
\* [kind "summary", total_users, total_accounts]
NoResponse == [kind |-> "none"]
RaisedResponse == [kind |-> "raised"]

\* get_summary_data after get_consolidated_data returned: an exception of
\* get_consolidated_data propagates; the summary copies the totals of the
\* metadata
summarize(c) ==
    IF c.kind = "raised"
    THEN RaisedResponse
    ELSE [kind |-> "summary", total_users |-> c.metadata.total_users,
          total_accounts |-> c.metadata.total_accounts]

\* an unexpected exception raised inside a branch or a probe: str(e) is a
\* sequence of characters, here their positions
Msg(n) == [i \in 1..n |-> i]
ErrorMessages == {Msg(3), Msg(REASON_CHARS + 2)}

Launch ==
    /\ op = "get_summary_data"
    /\ cpc = "start"
    /\ cpc' = "gather"
    /\ branches' =
          [s \in Services |->
              BranchAfter(s, user_id, BranchEndpoint(s, user_id),
                          make_request_enter(max_retries))]
    /\ called' = [s \in Services |->
                    Call(BranchEndpoint(s, user_id), BranchUser(s, user_id))]
    /\ branch_how' = [s \in Services |-> HowAfter(make_request_enter(max_retries))]
    /\ branch_got' =
          [s \in Services |->
              AdapterAfter(BranchEndpoint(s, user_id),
                           make_request_enter(max_retries))]
    /\ UNCHANGED <<snapshot, response>>
    /\ UNCHANGED <<config_vars, adapter_vars, health_vars>>

\* the branch s goes on with the frame f of its _make_request
BranchStep(s, f) ==
    /\ branches' = [branches EXCEPT
                      ![s] = BranchAfter(s, user_id, branches[s].endpoint, f)]
    /\ branch_how' = [branch_how EXCEPT ![s] = HowAfter(f)]
    /\ branch_got' = [branch_got EXCEPT
                        ![s] = AdapterAfter(branches[s].endpoint, f)]
    /\ UNCHANGED <<cpc, called, snapshot, response>>
    /\ UNCHANGED <<config_vars, adapter_vars, health_vars>>

BranchSucceeds(s) ==
    /\ branches[s].pc = "running"
    /\ branches[s].frame.pc = "request"
    /\ \E p \in Payloads(branches[s].endpoint) :
          BranchStep(s, make_request_on_response(branches[s].frame, p))

BranchFails(s) ==
    /\ branches[s].pc = "running"
    /\ branches[s].frame.pc = "request"
    /\ \E k \in FailKinds :
          BranchStep(s, make_request_on_failure(branches[s].frame, k, max_retries))

BranchWakes(s) ==
    /\ branches[s].pc = "running"
    /\ branches[s].frame.pc = "sleep"
    /\ BranchStep(s, make_request_on_wake(branches[s].frame, max_retries))

\* an exception other than the ones _make_request absorbs is raised inside
\* the try block of the branch
BranchRaises(s) ==
    /\ branches[s].pc = "running"
    /\ branches' = [branches EXCEPT
                      ![s] = SettledBranch(BranchExcept(s, Exc(Msg(3))))]
    /\ branch_how' = [branch_how EXCEPT ![s] = "raised"]
    /\ UNCHANGED <<cpc, called, branch_got, snapshot, response>>
    /\ UNCHANGED <<config_vars, adapter_vars, health_vars>>

\* the gather is done: get_consolidated_data returns, and get_summary_data
\* goes on to its own return without another await
Assemble ==
    /\ cpc = "gather"
    /\ gather_done(branches)
    /\ cpc' = "done"
    /\ snapshot' = consolidate(gather_results(branches))
    /\ response' = summarize(snapshot')
    /\ UNCHANGED <<branches, called, branch_how, branch_got>>
    /\ UNCHANGED <<config_vars, adapter_vars, health_vars>>

-----------------------------------------------------------------------------
(* OrchestratorService.check_services_health.  A probe is one call of      *)
(* _check_service_health; its task is                                      *)
(*   [pc "running", endpoint, frame, wake]  inside check_func(); wake is   *)
(*                                          the time its asyncio.sleep     *)
(*                                          ends (0 when it is not asleep) *)
(*   [pc "settled", result]                 it returned the tuple `result` *)
(* All four probes start at time 0.                                        *)

ProbeEndpoint(s) ==
    CASE s = "microservice1" -> "users"
      [] s = "microservice2" -> "scraped_accounts"
      [] s = "microservice3" -> "dbquery_user"
      [] OTHER -> "dashboard"

\* the tuple (service_name, status); an "unhealthy" status carries a reason
Tuple(n, st, r) == [kind |-> "tuple", name |-> n, status |-> st, reason |-> r]

\* s[:n]
Prefix(str, n) == SubSeq(str, 1, IF Len(str) < n THEN Len(str) ELSE n)

\* `return (service_name, "healthy")`
check_service_health_return(s) == Tuple(s, "healthy", <<>>)
\* `except asyncio.TimeoutError`
check_service_health_timeout(s) == Tuple(s, "timeout", <<>>)
\* `except Exception as e`
check_service_health_except(s, e) ==
    Tuple(s, "unhealthy", Prefix(e.msg, REASON_CHARS))

RunningProbe(e, f, w) ==
    [pc |-> "running", endpoint |-> e, frame |-> f, wake |-> w]
SettledProbe(r) == [pc |-> "settled", result |-> r]

\* the probe after a step of its _make_request left the frame f at time t:
\* when _make_request returns, the adapter and check_func return, and the
\* probe reports "healthy" whatever was returned
ProbeAfter(s, f, t) ==
    IF f.pc = "returned"
    THEN SettledProbe(check_service_health_return(s))
    ELSE RunningProbe(ProbeEndpoint(s), f,
                      IF f.pc = "sleep" THEN t + f.delay ELSE 0)

\* mutant: the expiry of one probe ends every probe with "timeout"
probe_deadline_all(ps, s) ==
    [t \in DOMAIN ps |-> SettledProbe(check_service_health_timeout(t))]

\* asyncio.wait_for(check_func(), timeout=2.0) expires for the probe s: its
\* call is cancelled and the probe returns; the other probes are left alone
probe_deadline(ps, s) ==
    [ps EXCEPT ![s] = SettledProbe(check_service_health_timeout(s))]

\* the dict check_services_health builds, before anything is stored in it
NoStatus == <<>>

\* mutant: a result that is no tuple is reported as "unknown"
build_health_unknown(results) ==
    [n \in Services |->
        LET i == CHOOSE i \in Services :
                    n = (IF results[i].kind = "tuple" THEN results[i].name ELSE i)
        IN  IF results[i].kind = "tuple"
            THEN [status |-> results[i].status, reason |-> results[i].reason]
            ELSE [status |-> "unknown", reason |-> <<>>]]

\* lines 168-174: a tuple is stored under its own name, any other result as
\* "timeout" under the name of its position
build_health(results) ==
    [n \in Services |->
        LET i == CHOOSE i \in Services :
                    n = (IF results[i].kind = "tuple" THEN results[i].name ELSE i)
        IN  IF results[i].kind = "tuple"
            THEN [status |-> results[i].status, reason |-> results[i].reason]
            ELSE [status |-> "timeout", reason |-> <<>>]]

HealthLaunch ==
    /\ op = "check_services_health"
    /\ hpc = "start"
    /\ hpc' = "gather"
    /\ probes' = [s \in Services |->
                    ProbeAfter(s, make_request_enter(max_retries), now)]
    /\ probe_how' = [s \in Services |-> HowAfter(make_request_enter(max_retries))]
    /\ UNCHANGED <<now, health_status>>
    /\ UNCHANGED <<config_vars, adapter_vars, coord_vars>>

ProbeStep(s, f) ==
    /\ probes' = [probes EXCEPT ![s] = ProbeAfter(s, f, now)]
    /\ probe_how' = [probe_how EXCEPT ![s] = HowAfter(f)]
    /\ UNCHANGED <<hpc, now, health_status>>
    /\ UNCHANGED <<config_vars, adapter_vars, coord_vars>>

ProbeSucceeds(s) ==
    /\ probes[s].pc = "running"
    /\ probes[s].frame.pc = "request"
    /\ now < PROBE_TIMEOUT
    /\ \E p \in Payloads(probes[s].endpoint) :
          ProbeStep(s, make_request_on_response(probes[s].frame, p))

ProbeFails(s) ==
    /\ probes[s].pc = "running"
    /\ probes[s].frame.pc = "request"
    /\ now < PROBE_TIMEOUT
    /\ \E k \in FailKinds :
          ProbeStep(s, make_request_on_failure(probes[s].frame, k, max_retries))

ProbeWakes(s) ==
    /\ probes[s].pc = "running"
    /\ probes[s].frame.pc = "sleep"
    /\ probes[s].wake <= now
    /\ now < PROBE_TIMEOUT
    /\ ProbeStep(s, make_request_on_wake(probes[s].frame, max_retries))

\* an exception other than the ones _make_request absorbs is raised inside
\* check_func()
ProbeRaises(s) ==
    /\ probes[s].pc = "running"
    /\ now < PROBE_TIMEOUT
    /\ \E m \in ErrorMessages :
          probes' = [probes EXCEPT
                       ![s] = SettledProbe(check_service_health_except(s, Exc(m)))]
    /\ probe_how' = [probe_how EXCEPT ![s] = "raised"]
    /\ UNCHANGED <<hpc, now, health_status>>
    /\ UNCHANGED <<config_vars, adapter_vars, coord_vars>>

\* the timer of wait_for is due: it fires before anything later
ProbeTimesOut(s) ==
    /\ probes[s].pc = "running"
    /\ PROBE_TIMEOUT <= now
    /\ probes' = probe_deadline(probes, s)
    /\ probe_how' = [probe_how EXCEPT ![s] = "deadline"]
    /\ UNCHANGED <<hpc, now, health_status>>
    /\ UNCHANGED <<config_vars, adapter_vars, coord_vars>>

\* timer_due without the deadlines of the probes
timer_due_sleep_only(ps, t) ==
    \E s \in DOMAIN ps :
        /\ ps[s].pc = "running"
        /\ ps[s].frame.pc = "sleep"
        /\ ps[s].wake <= t

\* at the time t the event loop has a timer to fire for a probe that is
\* running: the deadline of its wait_for, or the end of its asyncio.sleep
timer_due(ps, t) ==
    \E s \in DOMAIN ps :
        /\ ps[s].pc = "running"
        /\ \/ PROBE_TIMEOUT <= t
           \/ ps[s].frame.pc = "sleep" /\ ps[s].wake <= t

\* time passes while some probe waits; a timer that is due fires first
Tick ==
    /\ hpc = "gather"
    /\ \E s \in DOMAIN probes : probes[s].pc = "running"
    /\ now < HEALTH_TIMEOUT
    /\ ~timer_due(probes, now)
    /\ now' = now + 1
    /\ UNCHANGED <<hpc, probes, probe_how, health_status>>
    /\ UNCHANGED <<config_vars, adapter_vars, coord_vars>>

\* the gather of the probes is done: wait_for hands its results over
HealthBuild ==
    /\ hpc = "gather"
    /\ gather_done(probes)
    /\ hpc' = "done"
    /\ health_status' = build_health(gather_results(probes))
    /\ UNCHANGED <<now, probes, probe_how>>
    /\ UNCHANGED <<config_vars, adapter_vars, coord_vars>>

\* mutant: the outer timeout keeps the status of the probes that had settled
health_timeout_status_partial(ps) ==
    [s \in Services |->
        IF ps[s].pc = "settled"
        THEN [status |-> ps[s].result.status, reason |-> ps[s].result.reason]
        ELSE [status |-> "timeout", reason |-> <<>>]]

\* `except asyncio.TimeoutError` of check_services_health: the map it
\* builds, whatever the probes ps had come to
health_timeout_status(ps) ==
    [s \in Services |-> [status |-> "timeout", reason |-> <<>>]]

\* a task cancelled with the gather it belongs to
CancelledProbe == [pc |-> "cancelled"]

\* wait_for cancels the gather, and the gather the tasks that are not done
cancel_gather(ps) ==
    [s \in DOMAIN ps |-> IF ps[s].pc = "settled" THEN ps[s] ELSE CancelledProbe]

\* the event loop is held up: time passes although a timer is due
LoopStalls ==
    /\ hpc = "gather"
    /\ ~gather_done(probes)
    /\ now < HEALTH_TIMEOUT
    /\ timer_due(probes, now)
    /\ now' = now + 1
    /\ UNCHANGED <<hpc, probes, probe_how, health_status>>
    /\ UNCHANGED <<config_vars, adapter_vars, coord_vars>>

\* the timer of the outer wait_for fires before the gather is done
HealthTimesOut ==
    /\ hpc = "gather"
    /\ ~gather_done(probes)
    /\ HEALTH_TIMEOUT <= now
    /\ hpc' = "done"
    /\ health_status' = health_timeout_status(probes)
    /\ probes' = cancel_gather(probes)
    /\ probe_how' = [s \in DOMAIN probes |->
                       IF probes[s].pc = "settled" THEN probe_how[s]
                                                   ELSE "cancelled"]
    /\ UNCHANGED now
    /\ UNCHANGED <<config_vars, adapter_vars, coord_vars>>

-----------------------------------------------------------------------------
(* OrchestratorService._calculate_rankings, a function of the snapshot.    *)
(* Here the records of the snapshot are dicts, modelled as functions from  *)
(* the keys they hold to the values: an account holds its owner under      *)
(* "userId" or "user_id" (or both, or neither), a user an "id" and maybe   *)
(* an "email".                                                             *)

\* a Python string
Str(t) == [kind |-> "str", str |-> t]

\* `account.get("userId") or account.get("user_id")`
account_owner(a) ==
    IF "userId" \in DOMAIN a /\ a.userId # 0 THEN Uid(a.userId)
    ELSE IF "user_id" \in DOMAIN a THEN Uid(a.user_id)
    ELSE NoUser

\* `user_account_count[user_id] = user_account_count.get(user_id, 0) + 1`
\* on a dict kept as the sequence of its entries in insertion order
count_account(counts, id) ==
    IF \E i \in 1..Len(counts) : counts[i].user_id = id
    THEN [i \in 1..Len(counts) |->
            IF counts[i].user_id = id
            THEN [counts[i] EXCEPT !.accounts_count = @ + 1]
            ELSE counts[i]]
    ELSE Append(counts, [user_id |-> id, accounts_count |-> 1])

\* lines 310-314: the loop over the accounts; `if user_id:` skips an
\* account whose owner is missing or 0
RECURSIVE user_account_count(_)
user_account_count(accounts) ==
    IF accounts = <<>> THEN <<>>
    ELSE LET n == Len(accounts)
             counts == user_account_count(SubSeq(accounts, 1, n - 1))
             owner == account_owner(accounts[n])
         IN  IF UserIdTruthy(owner) THEN count_account(counts, owner.id)
                                    ELSE counts

\* x put into the sequence q, sorted by non-increasing key, behind the
\* entries whose key is not smaller
InsertDesc(q, x) ==
    LET n == Cardinality({i \in 1..Len(q) : q[i].key >= x.key})
    IN  SubSeq(q, 1, n) \o <<x>> \o SubSeq(q, n + 1, Len(q))

\* sorted(q, key=..., reverse=True) of a sequence of [key, value]: by
\* non-increasing key, entries of equal key in their original order
RECURSIVE sorted_reverse(_)
sorted_reverse(q) ==
    IF q = <<>> THEN <<>>
    ELSE InsertDesc(sorted_reverse(SubSeq(q, 1, Len(q) - 1)), q[Len(q)])

\* q[-n:] in the place of q[:n]
TakeLast(q, n) == SubSeq(q, IF Len(q) < n THEN 1 ELSE Len(q) - n + 1, Len(q))

\* q[:n]
Take(q, n) == SubSeq(q, 1, IF Len(q) < n THEN Len(q) ELSE n)

\* `next((u.get("email") for u in users if u.get("id") == user_id), "N/A")`
user_email(users, id) ==
    LET matches == {i \in 1..Len(users) :
                       "id" \in DOMAIN users[i] /\ users[i].id = id}
    IN  IF matches = {} THEN Str("N/A")
        ELSE LET u == users[CHOOSE i \in matches : \A j \in matches : i <= j]
             IN  IF "email" \in DOMAIN u THEN Str(u.email) ELSE None

\* lines 309-323
top_users(users, accounts) ==
    LET counts == user_account_count(accounts)
        keyed == [i \in 1..Len(counts) |->
                    [key |-> counts[i].accounts_count, value |-> counts[i]]]
        top == Take(sorted_reverse(keyed), TOP_N)
    IN  [i \in 1..Len(top) |->
            [user_id |-> top[i].value.user_id,
             accounts_count |-> top[i].value.accounts_count,
             email |-> user_email(users, top[i].value.user_id)]]

\* `d.get(k, default)` on a dict kept as the function from its keys
Get(d, k, default) == IF k \in DOMAIN d THEN d[k] ELSE default

\* a Python number
Num(n) == [kind |-> "num", num |-> n]

\* `d.get(k)` of a number and of a string: None when the key is missing
GetNum(d, k) == IF k \in DOMAIN d THEN Num(d[k]) ELSE None
GetStr(d, k) == IF k \in DOMAIN d THEN Str(d[k]) ELSE None

\* `if account:` on `item.get("usernameTiktokAccount")`
account_named(item) ==
    "usernameTiktokAccount" \in DOMAIN item /\ item.usernameTiktokAccount # ""

\* lines 330-341 with the sums replaced by the values of the last item
add_post_overwriting(groups, item) ==
    LET name == item.usernameTiktokAccount
        base == IF \E i \in 1..Len(groups) : groups[i].account = name
                THEN groups
                ELSE Append(groups,
                        [account |-> name, total_views |-> 0, total_likes |-> 0,
                         total_engagement |-> 0, post_count |-> 0])
    IN  [i \in 1..Len(base) |->
            IF base[i].account = name
            THEN [account |-> name,
                  total_views |-> Get(item, "views", 0),
                  total_likes |-> Get(item, "likes", 0),
                  total_engagement |-> Get(item, "engagement", 0),
                  post_count |-> base[i].post_count + 1]
            ELSE base[i]]

\* lines 330-341: the entry of the account is created with zeros if it is
\* new, and the views, likes and engagement of the item are added to it
add_post(groups, item) ==
    LET name == item.usernameTiktokAccount
        base == IF \E i \in 1..Len(groups) : groups[i].account = name
                THEN groups
                ELSE Append(groups,
                        [account |-> name, total_views |-> 0, total_likes |-> 0,
                         total_engagement |-> 0, post_count |-> 0])
    IN  [i \in 1..Len(base) |->
            IF base[i].account = name
            THEN [base[i] EXCEPT
                    !.total_views = @ + Get(item, "views", 0),
                    !.total_likes = @ + Get(item, "likes", 0),
                    !.total_engagement = @ + Get(item, "engagement", 0),
                    !.post_count = @ + 1]
            ELSE base[i]]

\* lines 326-341: the loop over the items; the dict account_metrics kept as
\* the sequence of its values in insertion order
RECURSIVE account_metrics(_)
account_metrics(items) ==
    IF items = <<>> THEN <<>>
    ELSE LET n == Len(items)
             groups == account_metrics(SubSeq(items, 1, n - 1))
         IN  IF account_named(items[n]) THEN add_post(groups, items[n])
                                        ELSE groups

\* lines 325-347
top_accounts(items) ==
    LET groups == account_metrics(items)
        keyed == [i \in 1..Len(groups) |->
                    [key |-> groups[i].total_engagement, value |-> groups[i]]]
        top == Take(sorted_reverse(keyed), TOP_N)
    IN  [i \in 1..Len(top) |-> top[i].value]

\* lines 349-365
best_engagement(items) ==
    LET keyed == [i \in 1..Len(items) |->
                    [key |-> Get(items[i], "engagement", 0), value |-> items[i]]]
        top == Take(sorted_reverse(keyed), TOP_N)
    IN  [i \in 1..Len(top) |->
            [post_id |-> GetNum(top[i].value, "postId"),
             account |-> GetStr(top[i].value, "usernameTiktokAccount"),
             engagement |-> GetNum(top[i].value, "engagement"),
             views |-> GetNum(top[i].value, "views"),
             likes |-> GetNum(top[i].value, "likes")]]

\* _calculate_rankings
calculate_rankings(c) ==
    LET items == Get(c.metrics, "items", <<>>)
    IN  [top_users |-> top_users(c.users, c.scraped_accounts),
         top_accounts |-> top_accounts(items),
         best_engagement |-> best_engagement(items)]

NoConsolidated == <<>>
NoRankings == <<>>

\* the accounts and the users given to _calculate_rankings
AccountShapes ==
    {<<>>, [userId |-> 1], [user_id |-> 1], [user_id |-> 2], [user_id |-> 0],
     [userId |-> 0, user_id |-> 2]}
UserShapes ==
    {[id |-> 1, email |-> "a@x"], [id |-> 2, email |-> "b@x"],
     [id |-> 1, email |-> "c@x"], [id |-> 2]}

SeqsUpTo(S, n) == UNION {[1..k -> S] : k \in 0..n}

\* the inputs with few users and accounts and no items
SmallInputs ==
    [users : SeqsUpTo(UserShapes, MaxUsers),
     scraped_accounts : SeqsUpTo(AccountShapes, MaxAccounts),
     metrics : {[items |-> <<>>]}]

\* the account names of the items
AccountNames == <<"acc1", "acc2", "acc3", "acc4", "acc5", "acc6", "acc7", "acc8">>

\* the engagement of an item: not given, or one number
EngagementShapes == {<<>>, <<0>>, <<1>>, <<2>>}

\* the i-th item of an input with many items: its engagement is e; with
\* own_names every item has the account of its own, otherwise two accounts
\* share the items and every third item has no account or the empty name;
\* the views are given for the odd items and the likes for the first three
ManyItem(i, e, own_names) ==
    LET name == IF own_names THEN [usernameTiktokAccount |-> AccountNames[i]]
                ELSE IF i % 6 = 0 THEN [usernameTiktokAccount |-> ""]
                ELSE IF i % 3 = 0 THEN <<>>
                ELSE [usernameTiktokAccount |-> AccountNames[(i % 2) + 1]]
        eng == IF e = <<>> THEN <<>> ELSE [engagement |-> e[1]]
        views == IF i % 2 = 1 THEN [views |-> 10 * i] ELSE <<>>
        likes == IF i <= 3 THEN [likes |-> i] ELSE <<>>
    IN  [postId |-> i] @@ name @@ eng @@ views @@ likes

\* k times the element x
RECURSIVE Repeat(_, _)
Repeat(x, k) == IF k = 0 THEN <<>> ELSE <<x>> \o Repeat(x, k - 1)

\* the accounts of an input with many owners: the user i owns as many
\* accounts as the i-th number of es says
RECURSIVE ManyAccounts(_)
ManyAccounts(es) ==
    IF es = <<>> THEN <<>>
    ELSE LET n == Len(es)
         IN  ManyAccounts(SubSeq(es, 1, n - 1)) \o
             Repeat([user_id |-> n], IF es[n] = <<>> THEN 0 ELSE es[n][1])

\* the inputs with up to MaxItems items and as many owners of accounts
ManyInputs ==
    {[users |-> <<>>,
      scraped_accounts |-> ManyAccounts(es),
      metrics |-> [items |-> [i \in 1..Len(es) |-> ManyItem(i, es[i], own)]]] :
        es \in SeqsUpTo(EngagementShapes, MaxItems), own \in BOOLEAN}

CalculateRankings ==
    /\ op = "calculate_rankings"
    /\ rankings = NoRankings
    /\ rankings' = calculate_rankings(consolidated)
    /\ UNCHANGED <<op, max_retries, user_id, upstream, previous, consolidated>>
    /\ UNCHANGED <<summary, trends, adapter_vars, coord_vars, health_vars>>

-----------------------------------------------------------------------------
(* _calculate_summary_stats and _calculate_trends.  The engagement of an   *)
(* item is a number with decimals; here the numbers of the items are       *)
(* integers, a mean is kept exactly, as the fraction of a sum and a count, *)
(* and a value rounded to 2 decimals is kept as its number of hundredths.  *)

\* `sum(item.get(k, 0) for item in items)`
item_sum(items, k) == SeqSum([i \in 1..Len(items) |-> Get(items[i], k, 0)])

\* the fraction n/d, d positive
Frac(n, d) == [num |-> n, den |-> d]
\* a < b
FracLess(a, b) == a.num * b.den < b.num * a.den
\* a * p/q
FracTimes(a, p, q) == Frac(a.num * p, a.den * q)

\* round(x, 2) that cuts the decimals off
round2_truncating(x) == (100 * x.num) \div x.den

\* round(x, 2), in hundredths: the nearest one, the even one of two that
\* are equally near
round2(x) ==
    LET q == (100 * x.num) \div x.den
        rem == 100 * x.num - q * x.den
    IN  IF 2 * rem < x.den THEN q
        ELSE IF 2 * rem > x.den THEN q + 1
        ELSE IF q % 2 = 0 THEN q ELSE q + 1

\* line 289: the engagement of the items that have one other than 0
engagement_values(items) ==
    SelectSeq(items, LAMBDA it : "engagement" \in DOMAIN it /\ it.engagement # 0)

\* line 290
avg_engagement(items) ==
    LET values == engagement_values(items)
    IN  IF values # <<>> THEN Frac(item_sum(values, "engagement"), Len(values))
                         ELSE Frac(0, 1)

\* _calculate_summary_stats
calculate_summary_stats(c) ==
    LET items == Get(c.metrics, "items", <<>>)
    IN  [total_users |-> c.metadata.total_users,
         total_accounts |-> c.metadata.total_accounts,
         average_engagement |-> round2(avg_engagement(items)),
         total_views |-> item_sum(items, "views"),
         total_likes |-> item_sum(items, "likes"),
         total_interactions |-> item_sum(items, "totalInteractions")]

\* x put into the sequence q, sorted by non-decreasing key, behind the
\* entries whose key is not larger
InsertAsc(q, x) ==
    LET n == Cardinality({i \in 1..Len(q) : q[i].key <= x.key})
    IN  SubSeq(q, 1, n) \o <<x>> \o SubSeq(q, n + 1, Len(q))

\* sorted(q, key=..., reverse=False) of a sequence of [key, value]
RECURSIVE sorted_ascending(_)
sorted_ascending(q) ==
    IF q = <<>> THEN <<>>
    ELSE InsertAsc(sorted_ascending(SubSeq(q, 1, Len(q) - 1)), q[Len(q)])

\* lines 382-386: the items in the order of datePosted.  A date is kept as
\* the rank of its string among the dates, the "" of a missing date as 0.
sorted_items(items) ==
    LET keyed == [i \in 1..Len(items) |->
                    [key |-> Get(items[i], "datePosted", 0), value |-> items[i]]]
        sorted == sorted_ascending(keyed)
    IN  [i \in 1..Len(sorted) |-> sorted[i].value]

\* lines 390-391: the mean engagement of a half, 0 if the half is empty
half_eng(half) ==
    IF Len(half) > 0 THEN Frac(item_sum(half, "engagement"), Len(half))
                     ELSE Frac(0, 1)

\* lines 394-399 with the thresholds themselves counted as crossed
engagement_trend_inclusive(first_half_eng, second_half_eng) ==
    IF ~FracLess(second_half_eng, FracTimes(first_half_eng, 11, 10))
    THEN "increasing"
    ELSE IF ~FracLess(FracTimes(first_half_eng, 9, 10), second_half_eng)
    THEN "decreasing"
    ELSE "stable"

\* lines 394-399
engagement_trend(first_half_eng, second_half_eng) ==
    IF FracLess(FracTimes(first_half_eng, 11, 10), second_half_eng)
    THEN "increasing"
    ELSE IF FracLess(second_half_eng, FracTimes(first_half_eng, 9, 10))
    THEN "decreasing"
    ELSE "stable"

\* line 402 with the difference taken the other way round
growth_rate_reversed(first_half_eng, second_half_eng) ==
    IF first_half_eng.num > 0
    THEN Frac(100 * (first_half_eng.num * second_half_eng.den
                        - second_half_eng.num * first_half_eng.den),
              first_half_eng.num * second_half_eng.den)
    ELSE Frac(0, 1)

\* line 402
growth_rate(first_half_eng, second_half_eng) ==
    IF first_half_eng.num > 0
    THEN Frac(100 * (second_half_eng.num * first_half_eng.den
                        - first_half_eng.num * second_half_eng.den),
              first_half_eng.num * second_half_eng.den)
    ELSE Frac(0, 1)

\* _calculate_trends
calculate_trends(c) ==
    LET items == Get(c.metrics, "items", <<>>)
    IN  IF Len(items) >= 2
        THEN LET sorted == sorted_items(items)
                 mid == Len(sorted) \div 2
                 first_half_eng == half_eng(SubSeq(sorted, 1, mid))
                 second_half_eng == half_eng(SubSeq(sorted, mid + 1, Len(sorted)))
             IN  [growth_rate |->
                      round2(growth_rate(first_half_eng, second_half_eng)),
                  engagement_trend |->
                      engagement_trend(first_half_eng, second_half_eng)]
        ELSE [growth_rate |-> 0, engagement_trend |-> "insufficient_data"]

NoSummary == <<>>
NoTrends == <<>>

\* the items given to _calculate_summary_stats
SummaryShapes ==
    {<<>>,
     [views |-> 100, likes |-> 10, totalInteractions |-> 15, engagement |-> 1],
     [views |-> 50, engagement |-> 2],
     [likes |-> 5, totalInteractions |-> 5, engagement |-> 0],
     [engagement |-> 2]}

SummaryInputs ==
    {[metadata |-> [total_users |-> 2, total_accounts |-> 3],
      metrics |-> [items |-> items]] :
        items \in SeqsUpTo(SummaryShapes, MaxStatItems)}

\* the engagement of the items given to _calculate_trends: not given, or
\* one number
TrendEngagements == {<<>>, <<-10>>, <<0>>, <<9>>, <<10>>, <<11>>, <<12>>}

\* the dates of the items: in the order of the items, against it, or none
DateOrders == {"ascending", "descending", "missing"}

TrendItem(i, n, e, dates) ==
    (IF e = <<>> THEN <<>> ELSE [engagement |-> e[1]]) @@
    (CASE dates = "ascending" -> [datePosted |-> i]
       [] dates = "descending" -> [datePosted |-> n + 1 - i]
       [] OTHER -> <<>>)

TrendInputs ==
    {[metrics |-> [items |->
         [i \in 1..Len(es) |-> TrendItem(i, Len(es), es[i], dates)]]] :
        es \in SeqsUpTo(TrendEngagements, MaxStatItems), dates \in DateOrders}

CalculateSummaryStats ==
    /\ op = "calculate_summary_stats"
    /\ summary = NoSummary
    /\ summary' = calculate_summary_stats(consolidated)
    /\ UNCHANGED <<op, max_retries, user_id, upstream, previous, consolidated>>
    /\ UNCHANGED <<rankings, trends, adapter_vars, coord_vars, health_vars>>

CalculateTrends ==
    /\ op = "calculate_trends"
    /\ trends = NoTrends
    /\ trends' = calculate_trends(consolidated)
    /\ UNCHANGED <<op, max_retries, user_id, upstream, previous, consolidated>>
    /\ UNCHANGED <<rankings, summary, adapter_vars, coord_vars, health_vars>>

-----------------------------------------------------------------------------
(* Two calls of get_consolidated_data, one after the other, against        *)
(* services in a fixed state: a service gives the same answer to the same  *)
(* request, so every attempt of a branch meets the answer upstream holds   *)
(* for its service, in both calls.                                         *)

\* the answer of a service: a failure of some kind, or a payload
Refuses(k) == [ok |-> FALSE, kind |-> k]
Answers(p) == [ok |-> TRUE, payload |-> p]
NoUpstream == <<>>

\* the answers considered for the endpoint e: an error status, the empty
\* payload and a payload with data
FixedAnswers(e) ==
    {Refuses("status")} \cup
    {Answers(p) : p \in
        CASE e \in ListEndpoints -> {EmptyList, List(RecList(EndpointKind(e), 1))}
          [] e = "profile" -> {EmptyDict, Record(Rec(1, 1))}
          [] OTHER -> {EmptyDict, Bundle(RecList(3, 1), 1, RecList(4, 1))}}

FixedSucceeds(s) ==
    /\ branches[s].pc = "running"
    /\ branches[s].frame.pc = "request"
    /\ upstream[s].ok
    /\ BranchStep(s, make_request_on_response(branches[s].frame,
                                              upstream[s].payload))

FixedFails(s) ==
    /\ branches[s].pc = "running"
    /\ branches[s].frame.pc = "request"
    /\ ~upstream[s].ok
    /\ BranchStep(s, make_request_on_failure(branches[s].frame,
                                             upstream[s].kind, max_retries))

\* the first call has returned and the second is made: tasks, results and
\* consolidated are locals of a call, and the clients keep nothing of it
CallAgain ==
    /\ cpc = "done"
    /\ previous = NoSnapshot
    /\ previous' = snapshot
    /\ cpc' = "start"
    /\ branches' = NoTasks
    /\ called' = NoTasks
    /\ branch_how' = NoTasks
    /\ branch_got' = NoTasks
    /\ snapshot' = NoSnapshot
    /\ response' = NoResponse
    /\ UNCHANGED <<op, max_retries, user_id, upstream, calc_vars>>
    /\ UNCHANGED <<adapter_vars, health_vars>>

-----------------------------------------------------------------------------
(* The specification *)

Ops == {"adapter", "get_summary_data", "check_services_health"}

\* the state of a call that has not begun
InitCall ==
    /\ frame = IdleFrame
    /\ adapter_ret = Pending
    /\ outcomes = <<>>
    /\ slept = <<>>
    /\ logs = <<>>
    /\ attempt_time = 0
    /\ durations = <<>>
    /\ cpc = "start"
    /\ branches = NoTasks
    /\ called = NoTasks
    /\ branch_how = NoTasks
    /\ branch_got = NoTasks
    /\ snapshot = NoSnapshot
    /\ response = NoResponse
    /\ hpc = "start"
    /\ now = 0
    /\ probes = NoTasks
    /\ probe_how = NoTasks
    /\ health_status = NoStatus

Init ==
    /\ op \in Ops
    /\ max_retries \in (-MaxNegRetries)..MaxRetriesCfg
    /\ user_id \in (IF op = "get_summary_data" THEN UserIdArgs ELSE {NoUser})
    /\ endpoint \in (IF op = "adapter" THEN Endpoints ELSE {"none"})
    /\ upstream = NoUpstream
    /\ previous = NoSnapshot
    /\ consolidated = NoConsolidated
    /\ rankings = NoRankings
    /\ summary = NoSummary
    /\ trends = NoTrends
    /\ InitCall

Next ==
    \/ AdapterEnter
    \/ AttemptSucceeds
    \/ AttemptFails
    \/ SleepEnds
    \/ Launch
    \/ \E s \in DOMAIN branches : BranchSucceeds(s)
    \/ \E s \in DOMAIN branches : BranchFails(s)
    \/ \E s \in DOMAIN branches : BranchWakes(s)
    \/ \E s \in DOMAIN branches : BranchRaises(s)
    \/ Assemble
    \/ HealthLaunch
    \/ \E s \in DOMAIN probes : ProbeSucceeds(s)
    \/ \E s \in DOMAIN probes : ProbeFails(s)
    \/ \E s \in DOMAIN probes : ProbeWakes(s)
    \/ \E s \in DOMAIN probes : ProbeRaises(s)
    \/ \E s \in DOMAIN probes : ProbeTimesOut(s)
    \/ Tick
    \/ HealthBuild

Spec == Init /\ [][Next]_vars

(* check_services_health on an event loop that may be held up, so that a   *)
(* timer may fire later than it is due.  In Spec every timer fires when it *)
(* is due, every probe is settled by time PROBE_TIMEOUT, and the outer     *)
(* timeout is never reached.                                               *)

InitLate == Init /\ op = "check_services_health"

NextLate ==
    \/ HealthLaunch
    \/ \E s \in DOMAIN probes : ProbeSucceeds(s)
    \/ \E s \in DOMAIN probes : ProbeFails(s)
    \/ \E s \in DOMAIN probes : ProbeWakes(s)
    \/ \E s \in DOMAIN probes : ProbeRaises(s)
    \/ \E s \in DOMAIN probes : ProbeTimesOut(s)
    \/ Tick
    \/ LoopStalls
    \/ HealthBuild
    \/ HealthTimesOut

SpecLate == InitLate /\ [][NextLate]_vars

(* One adapter method called, with the time of its attempts followed *)

InitTimed ==
    /\ op = "adapter"
    /\ max_retries \in 0..MaxRetriesCfg
    /\ user_id = NoUser
    /\ endpoint \in {"users", "dbquery_user"}
    /\ upstream = NoUpstream
    /\ previous = NoSnapshot
    /\ consolidated = NoConsolidated
    /\ rankings = NoRankings
    /\ summary = NoSummary
    /\ trends = NoTrends
    /\ InitCall

NextTimed ==
    \/ AdapterEnter
    \/ TimedWaits
    \/ TimedSucceeds
    \/ TimedFails
    \/ TimedExpires
    \/ SleepEnds

SpecTimed == InitTimed /\ [][NextTimed]_vars

(* The three entry points on an event loop that may be held up, where what *)
(* can happen does happen: the event loop runs a task that is ready and    *)
(* fires a timer that is due (late, if it is held up), time passes, and    *)
(* every attempt in flight ends, with a response or with a failure, the    *)
(* timeout of its client among them.  No step can be taken twice from the  *)
(* same state, so weak fairness of the next-state relation says as much.   *)

InitLive ==
    /\ Init
    /\ max_retries <= LiveRetries

NextLive ==
    \/ Next
    \/ LoopStalls
    \/ HealthTimesOut

SpecLive == InitLive /\ [][NextLive]_vars /\ WF_vars(NextLive)

(* _calculate_rankings applied to a snapshot *)

InitRank ==
    /\ op = "calculate_rankings"
    /\ max_retries = 0
    /\ user_id = NoUser
    /\ endpoint = "none"
    /\ upstream = NoUpstream
    /\ previous = NoSnapshot
    /\ consolidated \in SmallInputs \cup ManyInputs
    /\ rankings = NoRankings
    /\ summary = NoSummary
    /\ trends = NoTrends
    /\ InitCall

NextRank == CalculateRankings

SpecRank == InitRank /\ [][NextRank]_vars

(* _calculate_summary_stats and _calculate_trends applied to a snapshot *)

InitStats ==
    /\ op \in {"calculate_summary_stats", "calculate_trends"}
    /\ max_retries = 0
    /\ user_id = NoUser
    /\ endpoint = "none"
    /\ upstream = NoUpstream
    /\ previous = NoSnapshot
    /\ consolidated \in (IF op = "calculate_summary_stats" THEN SummaryInputs
                                                          ELSE TrendInputs)
    /\ rankings = NoRankings
    /\ summary = NoSummary
    /\ trends = NoTrends
    /\ InitCall

NextStats ==
    \/ CalculateSummaryStats
    \/ CalculateTrends

SpecStats == InitStats /\ [][NextStats]_vars

(* Two calls of get_consolidated_data against fixed services *)

InitFixed ==
    /\ op = "get_summary_data"
    /\ max_retries \in 1..FixedRetries
    /\ user_id \in UserIdArgs
    /\ endpoint = "none"
    /\ upstream \in
          {u \in [Services -> UNION {FixedAnswers(e) : e \in Endpoints}] :
              \A s \in Services : u[s] \in FixedAnswers(BranchEndpoint(s, user_id))}
    /\ previous = NoSnapshot
    /\ consolidated = NoConsolidated
    /\ rankings = NoRankings
    /\ summary = NoSummary
    /\ trends = NoTrends
    /\ InitCall

NextFixed ==
    \/ Launch
    \/ \E s \in DOMAIN branches : FixedSucceeds(s)
    \/ \E s \in DOMAIN branches : FixedFails(s)
    \/ \E s \in DOMAIN branches : BranchWakes(s)
    \/ Assemble
    \/ CallAgain

SpecFixed == InitFixed /\ [][NextFixed]_vars

-----------------------------------------------------------------------------
(* Properties of _make_request and of the adapters (op = "adapter") *)

\* every attempt made so far failed
AllFailed == \A i \in 1..Len(outcomes) : outcomes[i].kind \in FailKinds

\* the call was made and each of its max_retries attempts failed
Exhausted ==
    /\ op = "adapter"
    /\ frame.pc # "idle"
    /\ Len(outcomes) = max_retries
    /\ AllFailed

\* the attempts started so far
Attempts == Len(outcomes) + (IF frame.pc = "request" THEN 1 ELSE 0)

\* C1: when every one of the max_retries attempts of _make_request has
\* failed, in any mix of error status, transport failure, timeout and
\* unparsable body, _make_request has returned None: it did not raise and it
\* is not waiting or trying again.
C1_ExhaustedReturnsNone ==
    Exhausted => frame.pc = "returned" /\ frame.ret = None

\* C1 witness: three attempts failed in three different ways and the call
\* returned None.
C1_Witness ==
    /\ Exhausted
    /\ max_retries = 3
    /\ outcomes[1].kind = "status"
    /\ outcomes[2].kind = "transport"
    /\ outcomes[3].kind = "parse"
    /\ frame.pc = "returned"
    /\ frame.ret = None

\* C2: an attempt that succeeds is the last attempt made, and _make_request
\* has returned exactly the payload that attempt parsed.
C2_FirstSuccessReturned ==
    op = "adapter" =>
        \A k \in 1..Len(outcomes) :
            outcomes[k].kind = "ok" =>
                /\ k = Len(outcomes)
                /\ Attempts = k
                /\ frame.pc = "returned"
                /\ frame.ret = outcomes[k].payload

\* C2 witness: with max_retries = 3 the outcomes are fail, fail, succeed and
\* the non-empty payload of the third attempt was returned.
C2_Witness ==
    /\ op = "adapter"
    /\ max_retries = 3
    /\ Len(outcomes) = 3
    /\ outcomes[1].kind \in FailKinds
    /\ outcomes[2].kind \in FailKinds
    /\ outcomes[3].kind = "ok"
    /\ Truthy(outcomes[3].payload)
    /\ frame.pc = "returned"
    /\ frame.ret = outcomes[3].payload

\* C3: _make_request never starts more than max_retries attempts (none if
\* max_retries is not positive); every
\* wait lasts RETRY_DELAY; while an attempt is in flight or after the return
\* there has been exactly one wait between each two consecutive attempts and
\* none after the last one, and a wait in progress follows an attempt that
\* is not the last; so an exhausted run has made max_retries - 1 waits.
C3_BoundedAttemptsFixedDelay ==
    op = "adapter" =>
        /\ Attempts <= (IF max_retries > 0 THEN max_retries ELSE 0)
        /\ \A i \in 1..Len(slept) : slept[i] = RETRY_DELAY
        /\ frame.pc \in {"request", "returned"} /\ Attempts > 0
              => Len(slept) = Attempts - 1
        /\ Attempts = 0 => Len(slept) = 0
        /\ frame.pc = "sleep" => Len(slept) = Attempts /\ Attempts < max_retries
        /\ Exhausted /\ max_retries > 0 => Len(slept) = max_retries - 1

\* C3 witness: an exhausted run of three attempts with two waits.
C3_Witness ==
    /\ Exhausted
    /\ max_retries = 3
    /\ frame.pc = "returned"
    /\ slept = <<RETRY_DELAY, RETRY_DELAY>>

\* C4: when every attempt behind an adapter method has failed, the method
\* has returned (it did not raise) its typed default: [] for the five list
\* methods, {"items": [], "count": 0, "dashboard": []} for the two metrics
\* methods and None for the profile.
C4_AdapterTypedDefault ==
    Exhausted =>
        /\ adapter_ret.done
        /\ endpoint \in {"users", "scraped_accounts", "scraped_accounts_by_user",
                         "questions", "dashboard"}
              => adapter_ret.value = List(<<>>)
        /\ endpoint \in {"dbquery_user", "dbquery_admin"}
              => adapter_ret.value = Bundle(<<>>, 0, <<>>)
        /\ endpoint = "profile" => adapter_ret.value = None

\* C4 witness: the admin metrics query returned its default after three
\* failed attempts.
C4_Witness ==
    /\ Exhausted
    /\ max_retries = 3
    /\ endpoint = "dbquery_admin"
    /\ adapter_ret.done
    /\ adapter_ret.value = Bundle(<<>>, 0, <<>>)

-----------------------------------------------------------------------------
(* Properties of get_consolidated_data and get_summary_data *)

\* the field of the snapshot that belongs to the branch of service s
Field(s) ==
    CASE s = "microservice1" -> snapshot.users
      [] s = "microservice2" -> snapshot.scraped_accounts
      [] s = "microservice3" -> snapshot.metrics
      [] OTHER -> snapshot.dashboard_data

\* the typed default of the branch of service s
TypedDefault(s) ==
    IF s = "microservice3" THEN Bundle(<<>>, 0, <<>>) ELSE List(<<>>)

\* the branch of s is the only one in which an exception was raised; the
\* adapters of the other three returned
OnlyRaised(s) ==
    /\ branch_how[s] = "raised"
    /\ \A t \in Services \ {s} : branch_how[t] \in {"payload", "absent"}

\* C5 as stated: when exactly one branch raises, the snapshot holds the
\* typed default in that branch's field and every other field is exactly
\* what the adapter of its branch returned.
C5_Original ==
    cpc = "done" =>
        \A s \in Services :
            OnlyRaised(s) =>
                /\ snapshot.kind = "snapshot"
                /\ Field(s) = TypedDefault(s)
                /\ \A t \in Services \ {s} : Field(t) = branch_got[t].value

\* what the users field holds for the value v its adapter returned: with a
\* non-zero user_id the profile in a one-element list, or [] for a missing
\* or empty profile
UsersFieldFor(v) ==
    IF user_id.given /\ user_id.id # 0
    THEN IF v.kind = "dict" /\ v.keys # {} THEN List(<<v.rec>>) ELSE List(<<>>)
    ELSE v

\* C5 as amended: when exactly one branch raises, the snapshot holds the
\* typed default in that branch's field, and every other field is exactly
\* what the adapter of its branch returned, except that with a non-zero
\* user_id the users field is the returned profile wrapped in a list ([] for
\* a missing or empty profile).
C5_FailureIsolated ==
    cpc = "done" =>
        \A s \in Services :
            OnlyRaised(s) =>
                /\ snapshot.kind = "snapshot"
                /\ Field(s) = TypedDefault(s)
                /\ \A t \in Services \ {s} :
                      Field(t) = IF t = "microservice1"
                                 THEN UsersFieldFor(branch_got[t].value)
                                 ELSE branch_got[t].value

\* C5 witness: the metrics branch raised after a failed attempt while the
\* other three branches delivered non-empty data, the users one a profile.
C5_Witness ==
    /\ cpc = "done"
    /\ snapshot.kind = "snapshot"
    /\ OnlyRaised("microservice3")
    /\ user_id = Uid(1)
    /\ snapshot.users = List(<<Rec(1, 1)>>)
    /\ Len(snapshot.scraped_accounts.elems) = 2
    /\ snapshot.metrics = Bundle(<<>>, 0, <<>>)
    /\ Len(snapshot.dashboard_data.elems) = 1

\* C6: the metadata of a snapshot is computed from its four fields:
\* total_users and total_accounts are the lengths of users and accounts,
\* total_posts_analyzed is metrics.count, and a service is "ok" exactly
\* when its field is non-empty (the metrics service: exactly when count > 0,
\* whatever items holds), else "no_data"; a failed branch and an empty
\* answer are both "no_data".
C6_MetadataFromFields ==
    snapshot.kind = "snapshot" =>
        LET md == snapshot.metadata
            count == IF "count" \in snapshot.metrics.keys
                     THEN snapshot.metrics.count ELSE 0
        IN  /\ md.total_users = Len(snapshot.users.elems)
            /\ md.total_accounts = Len(snapshot.scraped_accounts.elems)
            /\ md.total_posts_analyzed = count
            /\ md.services_status["microservice1"] =
                  (IF snapshot.users.elems # <<>> THEN "ok" ELSE "no_data")
            /\ md.services_status["microservice2"] =
                  (IF snapshot.scraped_accounts.elems # <<>> THEN "ok" ELSE "no_data")
            /\ md.services_status["microservice3"] =
                  (IF count > 0 THEN "ok" ELSE "no_data")
            /\ md.services_status["microservice4"] =
                  (IF snapshot.dashboard_data.elems # <<>> THEN "ok" ELSE "no_data")
            /\ \A s \in Services :
                  branch_how[s] \in {"absent", "raised"}
                     => md.services_status[s] = "no_data"

\* C6 witness: two users, a failed accounts branch, metrics with count 2
\* and no items, and a dashboard that answered with an empty list.
C6_Witness ==
    /\ snapshot.kind = "snapshot"
    /\ snapshot.metadata.total_users = 2
    /\ branch_how["microservice2"] = "absent"
    /\ snapshot.metadata.total_accounts = 0
    /\ snapshot.metrics = Bundle(<<>>, 2, <<>>)
    /\ snapshot.metadata.total_posts_analyzed = 2
    /\ branch_how["microservice4"] = "payload"
    /\ snapshot.metadata.services_status =
          [s \in Services |->
              IF s \in {"microservice1", "microservice3"} THEN "ok" ELSE "no_data"]

\* C7: get_consolidated_data has returned (a snapshot or an exception) only
\* if all four branches have settled, and the fields of the snapshot are
\* the results the settled branches hold; check_services_health has built
\* its map only if all four probes have settled or the outer timeout has
\* expired.
C7_BuiltAfterAllSettled ==
    /\ snapshot.kind # "none" =>
          /\ \A s \in Services : branches[s].pc = "settled"
          /\ snapshot.kind = "snapshot" =>
                \A s \in Services : Field(s) = branches[s].result
    /\ hpc = "done" =>
          \/ \A s \in Services : probes[s].pc = "settled"
          \/ HEALTH_TIMEOUT <= now

\* C7 witness: the snapshot was built after one branch had retried twice,
\* one had raised and two had answered at once.
C7_Witness ==
    /\ snapshot.kind = "snapshot"
    /\ max_retries = 3
    /\ branch_how["microservice1"] = "absent"
    /\ branch_how["microservice2"] = "raised"
    /\ branch_how["microservice3"] = "payload"
    /\ branch_how["microservice4"] = "payload"
    /\ \A s \in Services : branches[s].pc = "settled"

\* every branch failed: its adapter ran out of attempts or an exception was
\* raised in it
AllBranchesFailed == \A s \in Services : branch_how[s] \in {"absent", "raised"}

\* C8: whatever the outcomes of the four branches, get_consolidated_data
\* returns a snapshot and get_summary_data a summary: neither raises; when
\* all four branches fail, the snapshot is users = [], scraped_accounts =
\* [], metrics = {"items": [], "count": 0, "dashboard": []},
\* dashboard_data = [], with every service "no_data".
C8_NeverRaises ==
    cpc = "done" =>
        /\ snapshot.kind = "snapshot"
        /\ response.kind = "summary"
        /\ AllBranchesFailed =>
              /\ snapshot.users = List(<<>>)
              /\ snapshot.scraped_accounts = List(<<>>)
              /\ snapshot.metrics = Bundle(<<>>, 0, <<>>)
              /\ snapshot.dashboard_data = List(<<>>)
              /\ \A s \in Services :
                    snapshot.metadata.services_status[s] = "no_data"

\* C8 witness: all four branches failed, two by running out of attempts and
\* two by an exception, and both calls returned.
C8_Witness ==
    /\ cpc = "done"
    /\ max_retries = 3
    /\ branch_how["microservice1"] = "absent"
    /\ branch_how["microservice2"] = "raised"
    /\ branch_how["microservice3"] = "absent"
    /\ branch_how["microservice4"] = "raised"
    /\ snapshot.kind = "snapshot"
    /\ response.kind = "summary"

-----------------------------------------------------------------------------
(* Properties of check_services_health *)

\* C9 as stated: when at least one attempt is made, a service is reported
\* "healthy" only if its call succeeded before the deadline, "timeout" if
\* the deadline elapsed first, and "unhealthy" if the call failed in any
\* other way; in particular a service whose every attempt failed before the
\* deadline is not reported "healthy".
C9_Original ==
    hpc = "done" /\ max_retries >= 1 =>
        \A s \in Services :
            /\ health_status[s].status = "healthy" => probe_how[s] = "payload"
            /\ probe_how[s] = "deadline" => health_status[s].status = "timeout"
            /\ probe_how[s] \in {"raised", "absent"}
                  => health_status[s].status = "unhealthy"

\* C10: a probe ends with "timeout" exactly when its own deadline expired,
\* each settled probe holds the tuple of its own service, and the map
\* reports for every service the status of that service's own probe: the
\* expiry of one probe leaves the others as they were.
C10_TimeoutOnlyOwnProbe ==
    /\ \A s \in DOMAIN probes :
          /\ probes[s].pc = "settled" =>
                /\ probes[s].result.name = s
                /\ probes[s].result.status = "timeout" <=> probe_how[s] = "deadline"
                /\ probes[s].result.status = "healthy"
                      <=> probe_how[s] \in {"payload", "absent"}
                /\ probes[s].result.status = "unhealthy" <=> probe_how[s] = "raised"
          /\ probes[s].pc = "running" => probe_how[s] = "pending"
    /\ hpc = "done" =>
          \A s \in Services :
              /\ health_status[s].status = probes[s].result.status
              /\ health_status[s].status = "timeout" <=> probe_how[s] = "deadline"

\* C10 witness: the probe of microservice1 ran into its deadline; the map
\* reports "timeout" for it alone, "healthy" for two services that answered
\* and "unhealthy" for one whose call raised.
C10_Witness ==
    /\ hpc = "done"
    /\ probe_how["microservice1"] = "deadline"
    /\ probe_how["microservice2"] = "payload"
    /\ probe_how["microservice3"] = "raised"
    /\ probe_how["microservice4"] = "payload"
    /\ health_status["microservice1"].status = "timeout"
    /\ health_status["microservice2"].status = "healthy"
    /\ health_status["microservice3"].status = "unhealthy"
    /\ health_status["microservice4"].status = "healthy"

\* C11: when the outer deadline of check_services_health elapses before
\* all four probes have settled, the map it returns reports "timeout" for
\* every one of the four services, the ones whose probes had already
\* settled with another status included.
C11_OuterTimeoutAllTimeout ==
    hpc = "done" /\ ~gather_done(probes) =>
        /\ HEALTH_TIMEOUT <= now
        /\ DOMAIN health_status = Services
        /\ \A s \in Services : health_status[s].status = "timeout"

\* C11 witness: the outer deadline elapsed while one probe was still
\* running; the probes that had settled as "healthy" and "unhealthy" are
\* reported "timeout" too.
C11_Witness ==
    /\ hpc = "done"
    /\ HEALTH_TIMEOUT <= now
    /\ probes["microservice1"].pc = "cancelled"
    /\ probes["microservice2"].pc = "settled"
    /\ probes["microservice2"].result.status = "healthy"
    /\ probes["microservice3"].pc = "settled"
    /\ probes["microservice3"].result.status = "unhealthy"
    /\ \A s \in Services : health_status[s].status = "timeout"

C13_Original ==
    cpc # "start" =>
        IF user_id.given
        THEN /\ called["microservice1"] = [method |-> "profile", user |-> user_id]
             /\ called["microservice2"] =
                   [method |-> "scraped_accounts_by_user", user |-> user_id]
             /\ called["microservice3"] =
                   [method |-> "dbquery_user", user |-> user_id]
             /\ called["microservice4"] =
                   [method |-> "dashboard", user |-> [given |-> FALSE]]
        ELSE /\ called["microservice1"] =
                   [method |-> "users", user |-> [given |-> FALSE]]
             /\ called["microservice2"] =
                   [method |-> "scraped_accounts", user |-> [given |-> FALSE]]
             /\ called["microservice3"] =
                   [method |-> "dbquery_user", user |-> [given |-> FALSE]]
             /\ called["microservice4"] =
                   [method |-> "dashboard", user |-> [given |-> FALSE]]

\* C14 as stated: in every snapshot users, scraped_accounts and
\* dashboard_data are lists, and metrics holds items and dashboard (lists)
\* and count (an integer), whatever the services answered and whichever
\* branches failed.
C14_Original ==
    snapshot.kind = "snapshot" =>
        /\ snapshot.users.kind = "list"
        /\ snapshot.scraped_accounts.kind = "list"
        /\ snapshot.dashboard_data.kind = "list"
        /\ snapshot.metrics.kind = "dict"
        /\ {"items", "count", "dashboard"} \subseteq snapshot.metrics.keys
        /\ snapshot.metrics.count \in Int

\* C15 as stated: an adapter method returns the payload _make_request
\* returned unchanged, an empty list or an empty mapping included, and its
\* typed default only when _make_request returned None; so what it returns
\* for an empty payload differs from what it returns for None.
C15_Original ==
    op = "adapter" /\ adapter_ret.done =>
        /\ frame.ret # None => adapter_ret.value = frame.ret
        /\ frame.ret # None /\ ~Truthy(frame.ret)
              => adapter_ret.value # AdapterReturn(endpoint, None)

\* what the branch of service s produced: its typed default if an exception
\* was raised in it, else what it makes of the value its adapter returned
OwnResult(s) ==
    IF branch_how[s] = "raised" THEN TypedDefault(s)
    ELSE IF s = "microservice1" THEN UsersFieldFor(branch_got[s].value)
    ELSE branch_got[s].value

\* the records held by the value v
RecordsOf(v) ==
    IF v.kind = "list" THEN {v.elems[i] : i \in 1..Len(v.elems)}
    ELSE IF "items" \in v.keys
    THEN {v.items[i] : i \in 1..Len(v.items)} \cup
         {v.dashboard[i] : i \in 1..Len(v.dashboard)}
    ELSE {}

\* C16: in every snapshot, whatever the order in which the branches
\* completed, users holds the result of the users branch, scraped_accounts
\* that of the accounts branch, metrics that of the metrics branch and
\* dashboard_data that of the dashboard branch; no field holds a record
\* that was answered to another branch.
C16_OwnSlot ==
    snapshot.kind = "snapshot" =>
        /\ \A s \in Services : Field(s) = OwnResult(s)
        /\ RecordsOf(snapshot.users) \subseteq {Rec(1, i) : i \in 1..MaxListLen}
        /\ RecordsOf(snapshot.scraped_accounts)
              \subseteq {Rec(2, i) : i \in 1..MaxListLen}
        /\ RecordsOf(snapshot.metrics)
              \subseteq {Rec(3, i) : i \in 1..MaxListLen}
                         \cup {Rec(4, i) : i \in 1..MaxListLen}
        /\ RecordsOf(snapshot.dashboard_data)
              \subseteq {Rec(4, i) : i \in 1..MaxListLen}

\* C16 witness: all four branches delivered data of their own kind, and
\* each field of the snapshot holds its own.
C16_Witness ==
    /\ snapshot.kind = "snapshot"
    /\ max_retries = 3
    /\ \A s \in Services : branch_how[s] = "payload"
    /\ snapshot.users = List(RecList(1, 2))
    /\ snapshot.scraped_accounts = List(RecList(2, 1))
    /\ snapshot.metrics = Bundle(RecList(3, 1), 1, RecList(4, 1))
    /\ snapshot.dashboard_data = List(RecList(4, 2))

\* C17: the timeout of _make_request runs for each attempt on its own: an
\* attempt ends as a timeout exactly when it has itself taken
\* REQUEST_TIMEOUT, whatever time the attempts and waits before it took;
\* an attempt that timed out counts as a failed attempt, followed by a wait
\* and another attempt while attempts remain and by the return of None
\* when it was the last.
C17_TimeoutPerAttempt ==
    op = "adapter" =>
        /\ Len(durations) = Len(outcomes)
        /\ \A i \in 1..Len(outcomes) :
              /\ outcomes[i].kind = "timeout" <=> durations[i] = REQUEST_TIMEOUT
              /\ outcomes[i].kind # "timeout" => durations[i] < REQUEST_TIMEOUT
              /\ outcomes[i].kind = "timeout" /\ i = Len(outcomes) =>
                    IF i < max_retries
                    THEN \/ frame.pc = "sleep"
                         \/ frame.pc = "request" /\ frame.attempt = i
                    ELSE frame.pc = "returned" /\ frame.ret = None
        /\ Attempts <= max_retries

\* C17 witness: two attempts timed out, each after the full timeout, and
\* the third, begun more than two timeouts into the call, was given time of
\* its own and succeeded.
C17_Witness ==
    /\ op = "adapter"
    /\ max_retries = 3
    /\ Len(outcomes) = 3
    /\ outcomes[1].kind = "timeout"
    /\ outcomes[2].kind = "timeout"
    /\ outcomes[3].kind = "ok"
    /\ durations[1] = REQUEST_TIMEOUT
    /\ durations[2] = REQUEST_TIMEOUT
    /\ durations[3] > 0
    /\ CallTime > 2 * REQUEST_TIMEOUT + durations[3]
    /\ frame.pc = "returned"
    /\ frame.ret = outcomes[3].payload

\* the logs of level l so far
LogsOf(l) == {i \in 1..Len(logs) : logs[i].level = l}

\* the attempts that failed so far
FailedAttempts == {i \in 1..Len(outcomes) : outcomes[i].kind # "ok"}

\* C18 as stated: whatever the kinds of the failures (error status,
\* transport failure, unparsable body), _make_request has logged one warning
\* for each failed attempt, and one error once the retries are exhausted
\* and none otherwise.
C18_Original ==
    op = "adapter" /\ (\A i \in 1..Len(outcomes) : outcomes[i].kind # "timeout") =>
        /\ Cardinality(LogsOf("warning")) = Cardinality(FailedAttempts)
        /\ Cardinality(LogsOf("error")) =
              (IF Exhausted /\ max_retries > 0 THEN 1 ELSE 0)

\* a map with exactly the four service names as keys, each with the status
\* "healthy", "timeout" or "unhealthy: " and at most REASON_CHARS characters
HealthMapOk(m) ==
    /\ DOMAIN m = {"microservice1", "microservice2", "microservice3",
                   "microservice4"}
    /\ \A s \in DOMAIN m :
          /\ m[s].status \in {"healthy", "timeout", "unhealthy"}
          /\ m[s].status = "unhealthy" => Len(m[s].reason) <= REASON_CHARS
          /\ m[s].status # "unhealthy" => m[s].reason = <<>>

\* the results of the settled probes, with an exception object in the
\* place of the results of the probes in S
ResultsWithExceptions(S) ==
    [s \in Services |-> IF s \in S THEN Exc(Msg(3)) ELSE probes[s].result]

\* C19: the map check_services_health returns has exactly the keys
\* microservice1..microservice4, each with the value "healthy", "timeout" or
\* "unhealthy: <reason>", whether all probes settled or the outer timeout
\* expired; the map it would build is of that form too if the results of
\* any of the probes were not tuples; check_services_health ends with that
\* map and in no other way.
C19_HealthMapWellFormed ==
    /\ hpc = "done" => HealthMapOk(health_status)
    /\ hpc # "done" => health_status = <<>>
    /\ hpc = "gather" /\ gather_done(probes) =>
          \A S \in SUBSET Services :
              HealthMapOk(build_health(ResultsWithExceptions(S)))

\* C19 witness: the map holds all three kinds of status, the reason of the
\* unhealthy service cut to REASON_CHARS characters.
C19_Witness ==
    /\ hpc = "done"
    /\ health_status["microservice1"].status = "healthy"
    /\ health_status["microservice2"].status = "timeout"
    /\ health_status["microservice3"].status = "unhealthy"
    /\ Len(health_status["microservice3"].reason) = REASON_CHARS
    /\ health_status["microservice4"].status = "healthy"
    /\ HealthMapOk(health_status)

\* the accounts that hold the user id under "userId" or "user_id"
OwnedBy(id) ==
    {i \in 1..Len(consolidated.scraped_accounts) :
        \E k \in DOMAIN consolidated.scraped_accounts[i] :
            k \in {"userId", "user_id"} /\ consolidated.scraped_accounts[i][k] = id}

\* C20 as stated: top_users ranks the users that own scraped accounts, the
\* owner read from either key: every user id that owns an account has an
\* entry (there are never more than TOP_N owners here), the entries are in
\* the order of non-increasing accounts_count, accounts_count is the number
\* of accounts of that user id, and email is the email of the first user
\* with that id, or "N/A" if there is none.
C20_Original ==
    rankings # <<>> =>
        LET top == rankings.top_users
            accounts == consolidated.scraped_accounts
            users == consolidated.users
        IN  /\ Len(top) <= TOP_N
            /\ \A i \in 1..Len(accounts) :
                  DOMAIN accounts[i] # {} =>
                      \E j \in 1..Len(top) : i \in OwnedBy(top[j].user_id)
            /\ \A j \in 1..Len(top) :
                  /\ top[j].accounts_count = Cardinality(OwnedBy(top[j].user_id))
                  /\ j < Len(top) =>
                        top[j].accounts_count >= top[j + 1].accounts_count
                  /\ \A k \in 1..Len(top) : k # j => top[k].user_id # top[j].user_id
                  /\ IF \E u \in 1..Len(users) : users[u].id = top[j].user_id
                     THEN LET u == CHOOSE u \in 1..Len(users) :
                                      /\ users[u].id = top[j].user_id
                                      /\ \A v \in 1..(u - 1) :
                                            users[v].id # top[j].user_id
                          IN  IF "email" \in DOMAIN users[u]
                              THEN top[j].email = [kind |-> "str", str |-> users[u].email]
                              ELSE top[j].email = [kind |-> "none"]
                     ELSE top[j].email = [kind |-> "str", str |-> "N/A"]

\* the smaller of two numbers
Min2(a, b) == IF a < b THEN a ELSE b

\* the items of an account, and the sum of a field over items, a missing
\* field counted as 0
ItemsOf(items, name) ==
    SelectSeq(items, LAMBDA it : account_named(it) /\ it.usernameTiktokAccount = name)
FieldSum(items, k) == SeqSum([i \in 1..Len(items) |-> Get(items[i], k, 0)])

\* the owners of the accounts and the number of accounts of an owner
Owners(accounts) ==
    {account_owner(accounts[i]).id :
        i \in {j \in 1..Len(accounts) : UserIdTruthy(account_owner(accounts[j]))}}
AccountsOf(accounts, id) ==
    Cardinality({i \in 1..Len(accounts) :
                    /\ UserIdTruthy(account_owner(accounts[i]))
                    /\ account_owner(accounts[i]).id = id})

\* the names of the accounts of the items
NamesOf(items) ==
    {items[i].usernameTiktokAccount :
        i \in {j \in 1..Len(items) : account_named(items[j])}}

\* a ranking, given as the keys and the candidates of its entries, is a cut
\* to the TOP_N largest of the candidates cands under the key CandKey
RankingCut(keys, ids, cands, CandKey(_)) ==
    /\ Len(keys) = Min2(TOP_N, Cardinality(cands))
    /\ \A j \in 1..(Len(keys) - 1) : keys[j] >= keys[j + 1]
    /\ \A j \in 1..Len(keys) :
          /\ ids[j] \in cands
          /\ keys[j] = CandKey(ids[j])
          /\ \A k \in 1..Len(keys) : k # j => ids[k] # ids[j]
    /\ \A c \in cands \ {ids[j] : j \in 1..Len(ids)} :
          \A j \in 1..Len(keys) : CandKey(c) <= keys[j]

C22_AccountGroups ==
    rankings # NoRankings =>
        LET items == consolidated.metrics.items
            ta == rankings.top_accounts
            named == SelectSeq(items, account_named)
        IN  /\ \A j \in 1..Len(ta) :
                  LET own == ItemsOf(items, ta[j].account)
                  IN  /\ ta[j].account \in NamesOf(items)
                      /\ ta[j].total_views = FieldSum(own, "views")
                      /\ ta[j].total_likes = FieldSum(own, "likes")
                      /\ ta[j].total_engagement = FieldSum(own, "engagement")
                      /\ ta[j].post_count = Len(own)
            /\ Cardinality(NamesOf(items)) <= TOP_N =>
                  SeqSum([j \in 1..Len(ta) |-> ta[j].post_count]) = Len(named)
            /\ SeqSum([j \in 1..Len(account_metrics(items)) |->
                          account_metrics(items)[j].post_count]) = Len(named)

\* C22 witness: two accounts share six items, two of which carry no account
\* name; each account has two items, and the views of one of them add up
\* while the other has items without views.
C22_Witness ==
    /\ rankings # NoRankings
    /\ Len(consolidated.metrics.items) = 6
    /\ Len(SelectSeq(consolidated.metrics.items, account_named)) = 4
    /\ Len(rankings.top_accounts) = 2
    /\ \A j \in 1..2 : rankings.top_accounts[j].post_count = 2
    /\ \E j \in 1..2 : rankings.top_accounts[j].total_views = 60
    /\ \E j \in 1..2 : rankings.top_accounts[j].total_views = 0
    /\ rankings.top_accounts[1].total_engagement = 4

\* the items whose engagement is present and not 0
WithEngagement(items) ==
    {i \in 1..Len(items) :
        "engagement" \in DOMAIN items[i] /\ items[i].engagement # 0}

\* the totals of the summary are the sums of the fields over the items
SummaryTotals ==
    LET items == consolidated.metrics.items
    IN  /\ summary.total_views = FieldSum(items, "views")
        /\ summary.total_likes = FieldSum(items, "likes")
        /\ summary.total_interactions = FieldSum(items, "totalInteractions")

\* C23 as stated: the totals are the sums of the fields, a missing field
\* counted as 0, and average_engagement is the sum of the engagement
\* divided by the number of items whose engagement is present and not 0,
\* or 0.0 when there are none.
C23_Original ==
    summary # NoSummary =>
        LET items == consolidated.metrics.items
            count == Cardinality(WithEngagement(items))
        IN  /\ SummaryTotals
            /\ IF count = 0 THEN summary.average_engagement = 0
               ELSE summary.average_engagement * count =
                        100 * FieldSum(items, "engagement")

\* C23, amended: the totals are the sums of the fields, a missing field
\* counted as 0, and average_engagement is the sum of the engagement
\* divided by the number of items whose engagement is present and not 0,
\* rounded to 2 decimals (it is within half a hundredth of the quotient),
\* or 0.0 when there are none.
C23_SummaryRounded ==
    summary # NoSummary =>
        LET items == consolidated.metrics.items
            count == Cardinality(WithEngagement(items))
            off == summary.average_engagement * count
                       - 100 * FieldSum(items, "engagement")
        IN  /\ SummaryTotals
            /\ IF count = 0 THEN summary.average_engagement = 0
               ELSE 2 * off <= count /\ -2 * off <= count

\* C23 witness: three items with engagement 2, 2 and 1 and a fourth with
\* engagement 0 or none, some of them without views: the mean 1.666... is
\* reported as 1.67.
C23_Witness ==
    /\ summary # NoSummary
    /\ Len(consolidated.metrics.items) = 4
    /\ Cardinality(WithEngagement(consolidated.metrics.items)) = 3
    /\ FieldSum(consolidated.metrics.items, "engagement") = 5
    /\ \E i \in 1..4 : "views" \notin DOMAIN consolidated.metrics.items[i]
    /\ summary.total_views > 0
    /\ summary.average_engagement = 167

\* the place of the i-th item among the items in the order of datePosted,
\* a missing date before every other, items of equal date in their order
DatePlace(items, i) ==
    1 + Cardinality({j \in 1..Len(items) :
            \/ Get(items[j], "datePosted", 0) < Get(items[i], "datePosted", 0)
            \/ /\ Get(items[j], "datePosted", 0) = Get(items[i], "datePosted", 0)
               /\ j < i})

\* the sum of the engagement of the first floor(n/2) items in the order of
\* datePosted, and of the items after them
FirstHalfSum(items) ==
    SeqSum([i \in 1..Len(items) |->
              IF DatePlace(items, i) <= Len(items) \div 2
              THEN Get(items[i], "engagement", 0) ELSE 0])
SecondHalfSum(items) ==
    SeqSum([i \in 1..Len(items) |->
              IF DatePlace(items, i) > Len(items) \div 2
              THEN Get(items[i], "engagement", 0) ELSE 0])

\* the second-half mean is above p/q times the first-half mean, and below
\* it: S/(n - mid) against p/q * F/mid, both sides multiplied out
SecondAbove(items, p, q) ==
    LET mid == Len(items) \div 2
    IN  q * SecondHalfSum(items) * mid > p * FirstHalfSum(items) * (Len(items) - mid)
SecondBelow(items, p, q) ==
    LET mid == Len(items) \div 2
    IN  q * SecondHalfSum(items) * mid < p * FirstHalfSum(items) * (Len(items) - mid)
SecondEquals(items, p, q) ==
    ~SecondAbove(items, p, q) /\ ~SecondBelow(items, p, q)

GrowthIsQuotient(items, h) ==
    LET m1 == Len(items) \div 2
        m2 == Len(items) - m1
        den == FirstHalfSum(items) * m2
        off == h * den - 10000 * (SecondHalfSum(items) * m1 - den)
        abs(x) == IF x < 0 THEN -x ELSE x
    IN  2 * abs(off) <= abs(den)

\* C25 as stated: for two items or more, growth_rate is
\* (second-half mean - first-half mean) / first-half mean * 100 (rounded to
\* 2 decimals) whenever the first-half mean is not 0, whatever the sign of
\* the engagement, and 0.0 when the first-half mean is 0.
C25_Original ==
    trends # NoTrends /\ Len(consolidated.metrics.items) >= 2 =>
        IF FirstHalfSum(consolidated.metrics.items) # 0
        THEN GrowthIsQuotient(consolidated.metrics.items, trends.growth_rate)
        ELSE trends.growth_rate = 0

\* no item has a negative engagement
NonNegative(items) ==
    \A i \in 1..Len(items) : Get(items[i], "engagement", 0) >= 0

\* C29 as stated: for items of non-negative engagement, "increasing" comes
\* with a growth_rate above 0, "decreasing" with one below 0, and a
\* growth_rate of 0.0 with "stable" or "insufficient_data".
C29_Original ==
    trends # NoTrends /\ NonNegative(consolidated.metrics.items) =>
        /\ trends.engagement_trend = "increasing" => trends.growth_rate > 0
        /\ trends.engagement_trend = "decreasing" => trends.growth_rate < 0
        /\ trends.growth_rate = 0 =>
              trends.engagement_trend \in {"stable", "insufficient_data"}

\* C29, amended: for items of non-negative engagement whose first-half mean
\* is above 0, "increasing" comes with a growth_rate above 0, "decreasing"
\* with one below 0, and a growth_rate of 0.0 with "stable"; where the
\* first-half mean is 0 the growth_rate is 0.0 and the trend is
\* "increasing" if the second-half mean is above 0 and "stable" if it is 0;
\* fewer than two items give 0.0 and "insufficient_data".
C29_TrendAgreesWithGrowth ==
    trends # NoTrends /\ NonNegative(consolidated.metrics.items) =>
        LET items == consolidated.metrics.items
            trend == trends.engagement_trend
        IN  IF Len(items) < 2
            THEN trend = "insufficient_data" /\ trends.growth_rate = 0
            ELSE IF FirstHalfSum(items) > 0
            THEN /\ trend = "increasing" => trends.growth_rate > 0
                 /\ trend = "decreasing" => trends.growth_rate < 0
                 /\ trends.growth_rate = 0 => trend = "stable"
            ELSE /\ trends.growth_rate = 0
                 /\ trend = (IF SecondHalfSum(items) > 0 THEN "increasing"
                                                         ELSE "stable")

\* C29 witness: three items of non-negative engagement, the oldest with
\* 11 and the two newer with the mean 9: the trend is "decreasing" and
\* the growth_rate -18.18.
C29_Witness ==
    /\ trends # NoTrends
    /\ NonNegative(consolidated.metrics.items)
    /\ Len(consolidated.metrics.items) = 3
    /\ FirstHalfSum(consolidated.metrics.items) = 11
    /\ SecondHalfSum(consolidated.metrics.items) = 18
    /\ trends.engagement_trend = "decreasing"
    /\ trends.growth_rate = -1818

\* the status check_services_health reports for a probe that ended as how
StatusOf(how) ==
    CASE how = "deadline" -> "timeout"
      [] how = "raised" -> "unhealthy"
      [] OTHER -> "healthy"

AdapterDefault(e) ==
    CASE e \in {"users", "scraped_accounts", "scraped_accounts_by_user",
                "questions", "dashboard"} -> List(<<>>)
      [] e \in {"dbquery_user", "dbquery_admin"} -> Bundle(<<>>, 0, <<>>)
      [] OTHER -> None

\* C28: with max_retries 0 or negative a call of _make_request starts no
\* attempt, waits for no delay, logs nothing and returns None at once, so
\* the adapter method has returned its typed default (None for the
\* profile); in get_consolidated_data no branch is ever left waiting for a
\* service: each has settled with what the adapter made of None.
C28_NoRetriesNoRequest ==
    max_retries <= 0 =>
        /\ op = "adapter" =>
              /\ frame.pc \in {"idle", "returned"}
              /\ outcomes = <<>> /\ slept = <<>> /\ logs = <<>>
              /\ frame.pc = "returned" =>
                    /\ frame.ret = None
                    /\ adapter_ret = [done |-> TRUE,
                                      value |-> AdapterDefault(endpoint)]
        /\ op = "get_summary_data" =>
              \A s \in DOMAIN branches :
                  /\ branches[s].pc = "settled"
                  /\ branch_how[s] = "absent"
                  /\ branch_got[s] = [done |-> TRUE,
                                      value |-> AdapterDefault(called[s].method)]

\* C28 witness: with a negative max_retries the user metrics query returned
\* its default bundle, no attempt made and no delay waited for.
C28_Witness ==
    /\ op = "adapter"
    /\ max_retries < 0
    /\ endpoint = "dbquery_user"
    /\ frame = [pc |-> "returned", ret |-> None]
    /\ adapter_ret = [done |-> TRUE, value |-> Bundle(<<>>, 0, <<>>)]
    /\ outcomes = <<>>
    /\ slept = <<>>

=============================================================================
